---- MODULE Spec2Model ----
(***************************************************************************)
(* A model of the ai-context MCP server's core: the SecurityValidator      *)
(* (path containment), the Scanner (directory walks producing the three    *)
(* metadata maps) and the Loader (re-reading a resource through the        *)
(* validator).                                                             *)
(*                                                                         *)
(* Strings are sequences of one-character strings, so that the code's      *)
(* startsWith, regular expressions and path functions are computed on      *)
(* characters.  "NUL", "LF" and "CR" stand for the characters \0, \n, \r.  *)
(* The fixed text of an error message is kept as one element.              *)
(***************************************************************************)
EXTENDS Naturals, Integers, Sequences, FiniteSets, TLC

VARIABLES
  fs,                  \* the filesystem: absolute path |-> node
  security,            \* the SecurityValidator instance: [normalizedRoot]
  req,                 \* the path a caller hands to the validator
  last,                \* the last operation, its outcome and the fs calls it made
  agentsMetadata,      \* Map<string, AgentMetadata>
  guidelinesMetadata,  \* Map<string, GuidelineMetadata>
  frameworksMetadata,  \* Map<string, FrameworkMetadata>
  scanned,             \* the kinds whose scan has completed
  scanLog,             \* every filesystem access the scans made, in order
  edits,               \* number of changes made to the tree after Init
  server               \* the AiContextMCPServer: its position, tools and mappings

vars == <<fs, security, req, last, agentsMetadata, guidelinesMetadata,
          frameworksMetadata, scanned, scanLog, edits, server>>

----------------------------------------------------------------------------
(* Bounds *)

\* longest requested path, in segments
MaxSegs == 3
\* symbolic links followed in one resolution before ELOOP
MaxLinks == 2
\* changes made to the tree between scan and load
MaxEdits == 1
\* resources asked of load_multiple_resources in one call
MaxResources == 2
\* fragments a document handed to extractMetadata is made of
MaxFragments == 3
\* length of the long run of text among the fragments
MaxRun == 260

----------------------------------------------------------------------------
(* Strings *)

StartsWith(s, p) == Len(p) <= Len(s) /\ SubSeq(s, 1, Len(p)) = p

EndsWith(s, p) == Len(p) <= Len(s) /\ SubSeq(s, Len(s) - Len(p) + 1, Len(s)) = p

Includes(s, sub) ==
  \E i \in 1..(Len(s) - Len(sub) + 1) : SubSeq(s, i, i + Len(sub) - 1) = sub

HexDigits == {"0", "1", "2", "3", "4", "5", "6", "7", "8", "9",
              "a", "b", "c", "d", "e", "f", "A", "B", "C", "D", "E", "F"}

\* the characters a regular expression's "." does not match
LineTerminators == {"LF", "CR"}

RECURSIVE SplitFrom(_, _, _)
SplitFrom(s, i, cur) ==
  IF i > Len(s) THEN <<cur>>
  ELSE IF s[i] = "/" THEN <<cur>> \o SplitFrom(s, i + 1, <<>>)
  ELSE SplitFrom(s, i + 1, Append(cur, s[i]))

\* s.split('/')
Split(s) == SplitFrom(s, 1, <<>>)

RECURSIVE JoinSegs(_)
\* segs.join('/')
JoinSegs(segs) ==
  IF segs = <<>> THEN <<>>
  ELSE IF Len(segs) = 1 THEN segs[1]
  ELSE segs[1] \o <<"/">> \o JoinSegs(Tail(segs))

----------------------------------------------------------------------------
(* path (POSIX) *)

DotDot == <<".", ".">>

RECURSIVE normalizeString(_, _, _)
\* path's normalizeString: drops empty and "." segments, applies ".."
normalizeString(segs, acc, allowAboveRoot) ==
  IF segs = <<>> THEN acc
  ELSE LET h == Head(segs) IN
    IF h = <<>> \/ h = <<".">> THEN normalizeString(Tail(segs), acc, allowAboveRoot)
    ELSE IF h = DotDot THEN
      IF acc # <<>> /\ acc[Len(acc)] # DotDot
        THEN normalizeString(Tail(segs), SubSeq(acc, 1, Len(acc) - 1), allowAboveRoot)
      ELSE IF allowAboveRoot
        THEN normalizeString(Tail(segs), Append(acc, DotDot), allowAboveRoot)
      ELSE normalizeString(Tail(segs), acc, allowAboveRoot)
    ELSE normalizeString(Tail(segs), Append(acc, h), allowAboveRoot)

IsAbsolute(p) == p # <<>> /\ p[1] = "/"

AbsPath(segs) == <<"/">> \o JoinSegs(segs)

\* the process's working directory
Cwd == <<"/", "w">>

\* path.resolve(from, to), from absolute
PathResolve(from, to) ==
  IF IsAbsolute(to) THEN AbsPath(normalizeString(Split(to), <<>>, FALSE))
  ELSE IF to = <<>> THEN AbsPath(normalizeString(Split(from), <<>>, FALSE))
  ELSE AbsPath(normalizeString(Split(from \o <<"/">> \o to), <<>>, FALSE))

\* path.resolve(p)
PathResolve1(p) == PathResolve(Cwd, p)

\* path.normalize(p)
PathNormalize(p) ==
  IF p = <<>> THEN <<".">>
  ELSE LET abs == IsAbsolute(p)
           trailing == p[Len(p)] = "/"
           body == JoinSegs(normalizeString(Split(p), <<>>, ~abs))
           body1 == IF body = <<>> /\ ~abs THEN <<".">> ELSE body
           body2 == IF body1 # <<>> /\ trailing THEN body1 \o <<"/">> ELSE body1
       IN IF abs THEN <<"/">> \o body2 ELSE body2

\* path.join(a, b)
PathJoin(a, b) ==
  IF a = <<>> THEN PathNormalize(b)
  ELSE IF b = <<>> THEN PathNormalize(a)
  ELSE PathNormalize(a \o <<"/">> \o b)

RECURSIVE CommonLen(_, _)
CommonLen(a, b) ==
  IF a = <<>> \/ b = <<>> \/ Head(a) # Head(b) THEN 0
  ELSE 1 + CommonLen(Tail(a), Tail(b))

\* path.relative(from, to)
PathRelative(from, to) ==
  LET f == normalizeString(Split(PathResolve1(from)), <<>>, FALSE)
      t == normalizeString(Split(PathResolve1(to)), <<>>, FALSE)
      k == CommonLen(f, t)
  IN JoinSegs([i \in 1..(Len(f) - k) |-> DotDot] \o SubSeq(t, k + 1, Len(t)))

----------------------------------------------------------------------------
(* More of String.prototype *)

Min(a, b) == IF a <= b THEN a ELSE b
Max(a, b) == IF a >= b THEN a ELSE b

\* s.slice(a - 1, b): SubSeq cut to the string's length
Slice(s, a, b) == IF a > Len(s) THEN <<>> ELSE SubSeq(s, a, Min(b, Len(s)))

\* the index (from 1) of the first occurrence of sub at or after `from`; 0 if none
IndexFrom(s, sub, from) ==
  LET hits == {i \in from..(Len(s) - Len(sub) + 1) : SubSeq(s, i, i + Len(sub) - 1) = sub}
  IN IF hits = {} THEN 0 ELSE CHOOSE i \in hits : \A j \in hits : i <= j

\* s.lastIndexOf(c), counted from 0 as the code counts; -1 if none
LastIndexOf(s, c) ==
  LET hits == {i \in 1..Len(s) : s[i] = c}
  IN IF hits = {} THEN -1 ELSE (CHOOSE i \in hits : \A j \in hits : i >= j) - 1

\* s.substring(0, n)
Substring0(s, n) == SubSeq(s, 1, Min(n, Len(s)))

\* the characters \s matches and trim() removes
WhiteSpace == {" ", "TAB", "LF", "CR"}

RECURSIVE TrimStart(_)
TrimStart(s) == IF s # <<>> /\ Head(s) \in WhiteSpace THEN TrimStart(Tail(s)) ELSE s

RECURSIVE TrimEnd(_)
TrimEnd(s) ==
  IF s # <<>> /\ s[Len(s)] \in WhiteSpace THEN TrimEnd(SubSeq(s, 1, Len(s) - 1)) ELSE s

\* s.trim()
Trim(s) == TrimEnd(TrimStart(s))

LowerOf(c) ==
  CASE c = "A" -> "a" [] c = "B" -> "b" [] c = "C" -> "c" [] c = "D" -> "d"
    [] c = "E" -> "e" [] c = "F" -> "f" [] c = "G" -> "g" [] c = "H" -> "h"
    [] c = "I" -> "i" [] c = "J" -> "j" [] c = "K" -> "k" [] c = "L" -> "l"
    [] c = "M" -> "m" [] c = "N" -> "n" [] c = "O" -> "o" [] c = "P" -> "p"
    [] c = "Q" -> "q" [] c = "R" -> "r" [] c = "S" -> "s" [] c = "T" -> "t"
    [] c = "U" -> "u" [] c = "V" -> "v" [] c = "W" -> "w" [] c = "X" -> "x"
    [] c = "Y" -> "y" [] c = "Z" -> "z" [] OTHER -> c

\* s.toLowerCase()
ToLowerCase(s) == [i \in 1..Len(s) |-> LowerOf(s[i])]

\* the end of the run of characters of `set` that starts at index i
RECURSIVE RunEnd(_, _, _)
RunEnd(s, i, set) == IF i <= Len(s) /\ s[i] \in set THEN RunEnd(s, i + 1, set) ELSE i

----------------------------------------------------------------------------
(* extractMetadata *)

\* the cap of the paragraph fallback and the least cut point it trims back to
ParagraphCap == 500
CutThreshold == 200

NoDescription == <<"No description available">>

YamlOpen == <<"-", "-", "-", "LF">>
YamlClose == <<"LF", "-", "-", "-">>
HtmlOpen == <<"<", "!", "-", "-">>
HtmlClose == <<"-", "-", ">">>
MetadataWord == <<"m", "e", "t", "a", "d", "a", "t", "a">>
ReadDirective == <<"LF", "R", "e", "a", "d", ":">>

\* content.match(/^---\n([\s\S]*?)\n---/): the end of the block, 0 if no match
yamlMatch(content) ==
  IF StartsWith(content, YamlOpen) THEN IndexFrom(content, YamlClose, Len(YamlOpen) + 1) ELSE 0

\* /<!--\s*metadata\s*\n([\s\S]*?)\s*-->/ tried at index i:
\* [ok, from, to] bracket the text between the marker and the closing token
htmlMatchAt(content, i) ==
  LET j == RunEnd(content, i + Len(HtmlOpen), WhiteSpace)
      k == j + Len(MetadataWord)
      e == RunEnd(content, k, WhiteSpace)
      close == IndexFrom(content, HtmlClose, e)
  IN IF /\ Slice(content, i, i + Len(HtmlOpen) - 1) = HtmlOpen
        /\ Slice(content, j, k - 1) = MetadataWord
        /\ \E n \in k..(e - 1) : content[n] = "LF"
        /\ close # 0
       THEN [ok |-> TRUE, from |-> k, to |-> close - 1]
       ELSE [ok |-> FALSE, from |-> 0, to |-> 0]

htmlMatch(content) ==
  LET hits == {i \in 1..Len(content) : htmlMatchAt(content, i).ok}
  IN IF hits = {} THEN [ok |-> FALSE, from |-> 0, to |-> 0]
     ELSE htmlMatchAt(content, CHOOSE i \in hits : \A j \in hits : i <= j)

\* content.replace(/^#[^\n]*\n+/, '')
withoutHeader(content) ==
  LET nl == IndexFrom(content, <<"LF">>, 1)
  IN IF content # <<>> /\ content[1] = "#" /\ nl # 0
       THEN SubSeq(content, RunEnd(content, nl, {"LF"}), Len(content))
       ELSE content

\* s.split(/\nRead:/)[0]
beforeReads(s) ==
  LET i == IndexFrom(s, ReadDirective, 1)
  IN IF i = 0 THEN s ELSE SubSeq(s, 1, i - 1)

firstParagraph(s) ==
  LET paragraphEnd == IndexFrom(s, <<"LF", "LF">>, 1)
      capped == Substring0(s, ParagraphCap)
      cutPoint == Max(LastIndexOf(capped, "."), LastIndexOf(capped, "LF"))
  IN IF paragraphEnd # 0 THEN SubSeq(s, 1, paragraphEnd - 1)
     ELSE IF cutPoint > CutThreshold THEN Substring0(capped, cutPoint + 1)
     ELSE capped

\* the fallback's content kept as it is, empty or not
orNoDescription_AsIs(p) == p

\* firstParagraph || 'No description available'
orNoDescription(p) == IF p = <<>> THEN NoDescription ELSE p

\* the choice among the three sources, given the two matches
extractFrom(content, yaml, html) ==
  IF yaml # 0
    THEN [content |-> Trim(SubSeq(content, Len(YamlOpen) + 1, yaml - 1)),
          source |-> "yaml"]
  ELSE IF html.ok
    THEN [content |-> Trim(SubSeq(content, html.from, html.to)), source |-> "html"]
  ELSE [content |-> orNoDescription(Trim(firstParagraph(beforeReads(withoutHeader(content))))),
        source |-> "paragraph"]

\* extractMetadata with the comment tried before the frontmatter
extractMetadata_HtmlFirst(content) ==
  IF htmlMatch(content).ok
    THEN extractFrom(content, 0, htmlMatch(content))
    ELSE extractFrom(content, yamlMatch(content), htmlMatch(content))

extractMetadata(content) == extractFrom(content, yamlMatch(content), htmlMatch(content))

----------------------------------------------------------------------------
(* The filesystem *)

File(perm, content) ==
  [kind |-> "file", perm |-> perm, content |-> content, target |-> <<>>, entries |-> <<>>]

Dir(perm, entries) ==
  [kind |-> "dir", perm |-> perm, content |-> <<>>, target |-> <<>>, entries |-> entries]

Link(target) ==
  [kind |-> "link", perm |-> TRUE, content |-> <<>>, target |-> target, entries |-> <<>>]

FsFail == [ok |-> FALSE, path |-> <<>>]

RECURSIVE Walk(_, _, _, _)
\* resolves the segments `rest` below the resolved directory `cur`, following links
Walk(f, cur, rest, fuel) ==
  IF rest = <<>> THEN [ok |-> TRUE, path |-> AbsPath(cur)]
  ELSE LET next == Append(cur, Head(rest))
           np == AbsPath(next)
       IN IF np \notin DOMAIN f THEN FsFail
          ELSE IF f[np].kind = "link" THEN
            IF fuel = 0 THEN FsFail
            ELSE Walk(f, <<>>,
                      normalizeString(Split(f[np].target), <<>>, FALSE) \o Tail(rest),
                      fuel - 1)
          ELSE IF Tail(rest) = <<>> THEN [ok |-> TRUE, path |-> np]
          ELSE IF f[np].kind = "dir" /\ f[np].perm THEN Walk(f, next, Tail(rest), fuel)
          ELSE FsFail

\* fs.realpathSync(p): ok is FALSE where it throws
realpathSync(f, p) == Walk(f, <<>>, normalizeString(Split(p), <<>>, FALSE), MaxLinks)

\* fs.existsSync(p): follows links
existsSync(f, p) == realpathSync(f, p).ok

\* fs.statSync(p): follows links; ok is FALSE where it throws
statSync(f, p) ==
  LET r == realpathSync(f, p)
  IN IF r.ok THEN [ok |-> TRUE, kind |-> f[r.path].kind] ELSE [ok |-> FALSE, kind |-> "none"]

\* fs.accessSync(p, R_OK) and fs.accessSync(p, R_OK | X_OK): TRUE where it returns
accessSync(f, p) ==
  LET r == realpathSync(f, p) IN r.ok /\ f[r.path].perm

\* fs.readFileSync(p, 'utf-8'): ok is FALSE where it throws
readFileSync(f, p) ==
  LET r == realpathSync(f, p)
  IN IF r.ok /\ f[r.path].kind = "file" /\ f[r.path].perm
       THEN [ok |-> TRUE, value |-> f[r.path].content]
       ELSE [ok |-> FALSE, value |-> <<>>]

\* fs.readdirSync(p): ok is FALSE where it throws
readdirSync(f, p) ==
  LET r == realpathSync(f, p)
  IN IF r.ok /\ f[r.path].kind = "dir" /\ f[r.path].perm
       THEN [ok |-> TRUE, value |-> f[r.path].entries]
       ELSE [ok |-> FALSE, value |-> <<>>]

\* one call of an fs function, as the logs record it
FsCall(fn, p, via) == [fn |-> fn, path |-> p, via |-> via]

----------------------------------------------------------------------------
(* SecurityValidator *)

MsgRootMissing == <<"Security: Root path does not exist: ">>
MsgRootNotDir == <<"Security: Root path is not a directory: ">>
MsgDangerous == <<"Security: Path contains dangerous patterns: ">>
MsgOutside == <<"Security: Access denied - path outside boundary">>
MsgSymlink == <<"Security: Symbolic link points outside boundary">>
MsgCannotRead == <<"Security: Cannot read file: ">>
MsgCannotAccess == <<"Security: Cannot access directory: ">>
Sanitized == <<"[sanitized]">>

\* the SecurityValidator constructor with the check of the directory left out
SecurityValidator_NoDirCheck(f, rootPath) ==
  IF ~existsSync(f, PathResolve1(rootPath))
    THEN [ok |-> FALSE, msg |-> MsgRootMissing \o rootPath, normalizedRoot |-> <<>>]
    ELSE [ok |-> TRUE, msg |-> <<>>, normalizedRoot |-> PathResolve1(rootPath)]

\* new SecurityValidator(rootPath)
SecurityValidator(f, rootPath) ==
  LET normalizedRoot == PathResolve1(rootPath)
  IN IF ~existsSync(f, normalizedRoot)
       THEN [ok |-> FALSE, msg |-> MsgRootMissing \o rootPath, normalizedRoot |-> <<>>]
     ELSE IF statSync(f, normalizedRoot).kind # "dir"
       THEN [ok |-> FALSE, msg |-> MsgRootNotDir \o rootPath, normalizedRoot |-> <<>>]
     ELSE [ok |-> TRUE, msg |-> <<>>, normalizedRoot |-> normalizedRoot]

\* /\$\{.*\}/ and /\$\(.*\)/
MatchesExpansion(s, open, close) ==
  \E i \in 1..Len(s), j \in 1..Len(s) :
     /\ i + 1 < j
     /\ s[i] = "$" /\ s[i + 1] = open /\ s[j] = close
     /\ \A k \in (i + 2)..(j - 1) : s[k] \notin LineTerminators

\* /%[0-9a-fA-F]{2}/ and /\\x[0-9a-fA-F]{2}/
MatchesEscape(s, lead) ==
  \E i \in 1..Len(s) :
     /\ i + Len(lead) + 1 <= Len(s)
     /\ SubSeq(s, i, i + Len(lead) - 1) = lead
     /\ s[i + Len(lead)] \in HexDigits /\ s[i + Len(lead) + 1] \in HexDigits

containsDangerousPatterns(filePath) ==
  \/ Includes(filePath, DotDot)
  \/ (filePath # <<>> /\ filePath[1] = "~")
  \/ MatchesExpansion(filePath, "{", "}")
  \/ MatchesExpansion(filePath, "(", ")")
  \/ MatchesEscape(filePath, <<"%">>)
  \/ MatchesEscape(filePath, <<"\\", "x">>)
  \/ Includes(filePath, <<"NUL">>)

sanitizePath(sv, filePath) ==
  IF StartsWith(filePath, sv.normalizedRoot)
    THEN PathRelative(sv.normalizedRoot, filePath)
    ELSE Sanitized

Throw(msg, ops) == [ok |-> FALSE, path |-> <<>>, msg |-> msg, ops |-> ops]
Return(path, ops) == [ok |-> TRUE, path |-> path, msg |-> <<>>, ops |-> ops]

\* validatePath with the filesystem consulted before the lexical check
validatePath_ResolveFirst(sv, f, requestedPath) ==
  LET resolved == PathResolve(sv.normalizedRoot, requestedPath)
      normalized == PathNormalize(resolved)
      realPath == realpathSync(f, normalized)
      ops == <<FsCall("realpathSync", normalized, "security")>>
  IN IF containsDangerousPatterns(requestedPath)
       THEN Throw(MsgDangerous \o sanitizePath(sv, requestedPath), ops)
     ELSE IF ~StartsWith(normalized, sv.normalizedRoot)
       THEN Throw(MsgOutside, ops)
     ELSE IF realPath.ok /\ StartsWith(realPath.path, sv.normalizedRoot)
       THEN Return(realPath.path, ops)
     ELSE Return(normalized, ops)

\* validatePath that refuses a path whose target cannot be resolved
validatePath_MissingThrows(sv, f, requestedPath) ==
  IF containsDangerousPatterns(requestedPath)
    THEN Throw(MsgDangerous \o sanitizePath(sv, requestedPath), <<>>)
  ELSE IF ~StartsWith(PathNormalize(PathResolve(sv.normalizedRoot, requestedPath)),
                      sv.normalizedRoot)
    THEN Throw(MsgOutside, <<>>)
  ELSE IF ~realpathSync(f, PathNormalize(PathResolve(sv.normalizedRoot, requestedPath))).ok
    THEN Throw(MsgOutside, <<>>)
  ELSE Return(realpathSync(f, PathNormalize(PathResolve(sv.normalizedRoot, requestedPath))).path,
              <<>>)

validatePath(sv, f, requestedPath) ==
  IF containsDangerousPatterns(requestedPath)
    THEN Throw(MsgDangerous \o sanitizePath(sv, requestedPath), <<>>)
  ELSE LET resolved == PathResolve(sv.normalizedRoot, requestedPath)
           normalized == PathNormalize(resolved)
       IN IF ~StartsWith(normalized, sv.normalizedRoot)
            THEN Throw(MsgOutside, <<>>)
          ELSE LET realPath == realpathSync(f, normalized)
                   ops == <<FsCall("realpathSync", normalized, "security")>>
               IN IF realPath.ok /\ StartsWith(realPath.path, sv.normalizedRoot)
                    THEN Return(realPath.path, ops)
                  \* the catch block takes every error of the try block,
                  \* the one thrown for a link outside the boundary included
                  ELSE Return(normalized, ops)

BoolResult(value, ops) == [value |-> value, ops |-> ops]

\* the calls a predicate has made on the validated path v.path once it has
\* come to `last`
PredicateOps(v, fns) ==
  v.ops \o [i \in 1..Len(fns) |-> FsCall(fns[i], v.path, "security")]

\* the body shared by isFileReadable and isDirectoryAccessible after
\* validatePath has answered v: exists, is of the kind, can be accessed; every
\* failure is caught and answered with false
accessibleAs(f, v, kind) ==
  IF ~v.ok THEN BoolResult(FALSE, v.ops)
  ELSE IF ~existsSync(f, v.path)
    THEN BoolResult(FALSE, PredicateOps(v, <<"existsSync">>))
  ELSE IF statSync(f, v.path).kind # kind
    THEN BoolResult(FALSE, PredicateOps(v, <<"existsSync", "statSync">>))
  ELSE BoolResult(accessSync(f, v.path),
                  PredicateOps(v, <<"existsSync", "statSync", "accessSync">>))

\* isFileReadable with the check of the file type left out: whatever kind the
\* target has is taken
isFileReadable_NoTypeCheck(sv, f, filePath) ==
  accessibleAs(f, validatePath(sv, f, filePath),
               statSync(f, validatePath(sv, f, filePath).path).kind)

isFileReadable(sv, f, filePath) == accessibleAs(f, validatePath(sv, f, filePath), "file")

isDirectoryAccessible(sv, f, dirPath) ==
  accessibleAs(f, validatePath(sv, f, dirPath), "dir")

\* the outcome of safeReadFile and safeListDirectory
IoThrow(msg, ops) == [ok |-> FALSE, value |-> <<>>, msg |-> msg, ops |-> ops]
IoReturn(value, ops) == [ok |-> TRUE, value |-> value, msg |-> <<>>, ops |-> ops]

\* the message of the error a failed fs call throws: it names the path
MsgFsError(p) == <<"ENOENT/EACCES: ">> \o p

\* the steps shared by safeReadFile and safeListDirectory: `validated` is
\* validatePath's answer, `allowed` the predicate's answer on the validated
\* path, `result` the fs call's outcome on it
safeCall(validated, allowed, denied, fn, result) ==
  IF ~validated.ok THEN IoThrow(validated.msg, validated.ops)
  ELSE IF ~allowed.value THEN IoThrow(denied, validated.ops \o allowed.ops)
  ELSE IF result.ok
    THEN IoReturn(result.value,
                  validated.ops \o allowed.ops \o <<FsCall(fn, validated.path, "security")>>)
  ELSE IoThrow(MsgFsError(validated.path),
               validated.ops \o allowed.ops \o <<FsCall(fn, validated.path, "security")>>)

\* safeReadFile with the check by isFileReadable left out
safeReadFile_Unchecked(sv, f, filePath) ==
  safeCall(validatePath(sv, f, filePath),
           BoolResult(TRUE, <<>>),
           MsgCannotRead \o sanitizePath(sv, filePath),
           "readFileSync",
           readFileSync(f, validatePath(sv, f, filePath).path))

safeReadFile(sv, f, filePath) ==
  safeCall(validatePath(sv, f, filePath),
           isFileReadable(sv, f, validatePath(sv, f, filePath).path),
           MsgCannotRead \o sanitizePath(sv, filePath),
           "readFileSync",
           readFileSync(f, validatePath(sv, f, filePath).path))

safeListDirectory(sv, f, dirPath) ==
  safeCall(validatePath(sv, f, dirPath),
           isDirectoryAccessible(sv, f, validatePath(sv, f, dirPath).path),
           MsgCannotAccess \o sanitizePath(sv, dirPath),
           "readdirSync",
           readdirSync(f, validatePath(sv, f, dirPath).path))

\* getRootPath()
getRootPath(sv) == sv.normalizedRoot

----------------------------------------------------------------------------
(* types.ts *)

\* DirectoryNames
AGENTS == <<"a", "g", "e", "n", "t", "s">>
GUIDELINES == <<"g", "u", "i", "d", "e", "l", "i", "n", "e", "s">>
FRAMEWORKS == <<"f", "r", "a", "m", "e", "w", "o", "r", "k", "s">>
\* FileExtensions
MARKDOWN == <<".", "m", "d">>

----------------------------------------------------------------------------
(* Map<string, Metadata>: the keys in insertion order and the entries *)

EmptyMap == [order |-> <<>>, at |-> [k \in {} |-> <<>>]]

MapHas(m, k) == k \in DOMAIN m.at

\* m.set(k, v)
MapSet(m, k, v) ==
  IF MapHas(m, k) THEN [m EXCEPT !.at[k] = v]
  ELSE [order |-> Append(m.order, k),
        at |-> [x \in DOMAIN m.at \cup {k} |-> IF x = k THEN v ELSE m.at[x]]]

\* Array.from(m.keys())
MapKeys(m) == m.order

----------------------------------------------------------------------------
(* fs/promises, as the Scanner calls it *)

\* the Dirent of the entry at path p: the kind of the entry itself
Dirent(f, p) ==
  IF p \in DOMAIN f
    THEN [isDirectory |-> f[p].kind = "dir", isFile |-> f[p].kind = "file"]
    ELSE [isDirectory |-> FALSE, isFile |-> FALSE]

\* name.toLowerCase().endsWith('.md')
IsMarkdown(name) == EndsWith(ToLowerCase(name), MARKDOWN)

\* name.replace(/\.md$/i, '')
StripMarkdown(name) ==
  IF IsMarkdown(name) THEN SubSeq(name, 1, Len(name) - Len(MARKDOWN)) ELSE name

\* s.replace(/\\/g, '/')
SlashesForward(s) == [i \in 1..Len(s) |-> IF s[i] = "\\" THEN "/" ELSE s[i]]

ScanAcc(map, log) == [map |-> map, log |-> log]

Logged(acc, fn, p) == [acc EXCEPT !.log = Append(@, FsCall(fn, p, "fs"))]

----------------------------------------------------------------------------
(* Scanner *)

\* map.set(key, metadata) in the accumulator
Inserted(acc, key, metadata) == [acc EXCEPT !.map = MapSet(@, key, metadata)]

AgentMetadata(name, path, extracted) ==
  [name |-> name, path |-> path, description |-> extracted.content,
   metadataSource |-> extracted.source]

RECURSIVE scanAgentsDir(_, _, _)
RECURSIVE scanAgentsListed(_, _, _, _)
RECURSIVE scanAgentsEntries(_, _, _, _, _)
RECURSIVE scanAgentsEntry(_, _, _, _, _, _, _)
RECURSIVE scanAgentsFile(_, _, _, _, _, _, _)

\* the closure scan(dir) of scanAgentsWithMetadata
scanAgentsDir(f, dir, acc) ==
  scanAgentsListed(f, dir, readdirSync(f, dir), Logged(acc, "readdir", dir))

\* a directory that cannot be read is the catch block's: nothing is added
scanAgentsListed(f, dir, entries, acc) ==
  IF ~entries.ok THEN acc ELSE scanAgentsEntries(f, dir, entries.value, 1, acc)

\* its for loop from entry i on
scanAgentsEntries(f, dir, entries, i, acc) ==
  IF i > Len(entries) THEN acc
  ELSE scanAgentsEntry(f, dir, entries, i, acc, PathJoin(dir, entries[i]),
                       Dirent(f, PathJoin(dir, entries[i])))

\* the body of the loop for the entry at fullPath
scanAgentsEntry(f, dir, entries, i, acc, fullPath, entry) ==
  IF entry.isDirectory
    THEN scanAgentsEntries(f, dir, entries, i + 1, scanAgentsDir(f, fullPath, acc))
  ELSE IF entry.isFile /\ IsMarkdown(entries[i])
    THEN scanAgentsFile(f, dir, entries, i, Logged(acc, "readFile", fullPath), fullPath,
                        readFileSync(f, fullPath))
  ELSE scanAgentsEntries(f, dir, entries, i + 1, acc)

\* a failed read leaves the loop for the catch block of the directory
scanAgentsFile(f, dir, entries, i, acc, fullPath, content) ==
  IF ~content.ok THEN acc
  ELSE scanAgentsEntries(f, dir, entries, i + 1,
         Inserted(acc, StripMarkdown(entries[i]),
                  AgentMetadata(StripMarkdown(entries[i]), fullPath,
                                extractMetadata(content.value))))

\* the walk started at the context root instead of its agents directory
scanAgentsWithMetadata_FromRoot(rootPath, f) ==
  scanAgentsDir(f, rootPath, ScanAcc(EmptyMap, <<>>))

scanAgentsWithMetadata(rootPath, f) ==
  scanAgentsDir(f, PathJoin(rootPath, AGENTS), ScanAcc(EmptyMap, <<>>))

General == <<"g", "e", "n", "e", "r", "a", "l">>

\* the category taken from the key's first segment whatever its depth
CategoryOf_FirstSegment(pathParts) == pathParts[1]

\* pathParts.length > 1 ? pathParts[0] : 'general'
CategoryOf(pathParts) == IF Len(pathParts) > 1 THEN pathParts[1] ELSE General

GuidelineMetadata(key, path, extracted) ==
  [name |-> key, path |-> path, category |-> CategoryOf(Split(key)),
   description |-> extracted.content, metadataSource |-> extracted.source]

RECURSIVE scanGuidelinesDir(_, _, _, _)
RECURSIVE scanGuidelinesListed(_, _, _, _, _)
RECURSIVE scanGuidelinesEntries(_, _, _, _, _, _)
RECURSIVE scanGuidelinesEntry(_, _, _, _, _, _, _, _)
RECURSIVE scanGuidelinesFile(_, _, _, _, _, _, _, _, _)

\* the closure scan(dir, basePath) of scanGuidelinesWithMetadata
scanGuidelinesDir(f, dir, basePath, acc) ==
  scanGuidelinesListed(f, dir, basePath, readdirSync(f, dir), Logged(acc, "readdir", dir))

scanGuidelinesListed(f, dir, basePath, entries, acc) ==
  IF ~entries.ok THEN acc
  ELSE scanGuidelinesEntries(f, dir, basePath, entries.value, 1, acc)

scanGuidelinesEntries(f, dir, basePath, entries, i, acc) ==
  IF i > Len(entries) THEN acc
  ELSE scanGuidelinesEntry(f, dir, basePath, entries, i, acc, PathJoin(dir, entries[i]),
                           Dirent(f, PathJoin(dir, entries[i])))

scanGuidelinesEntry(f, dir, basePath, entries, i, acc, fullPath, entry) ==
  IF entry.isDirectory
    THEN scanGuidelinesEntries(f, dir, basePath, entries, i + 1,
                               scanGuidelinesDir(f, fullPath, basePath, acc))
  ELSE IF entry.isFile /\ IsMarkdown(entries[i])
    THEN scanGuidelinesFile(f, dir, basePath, entries, i,
                            Logged(acc, "readFile", fullPath), fullPath,
                            StripMarkdown(SlashesForward(PathRelative(basePath, fullPath))),
                            readFileSync(f, fullPath))
  ELSE scanGuidelinesEntries(f, dir, basePath, entries, i + 1, acc)

scanGuidelinesFile(f, dir, basePath, entries, i, acc, fullPath, key, content) ==
  IF ~content.ok THEN acc
  ELSE scanGuidelinesEntries(f, dir, basePath, entries, i + 1,
         Inserted(acc, key, GuidelineMetadata(key, fullPath, extractMetadata(content.value))))

scanGuidelinesWithMetadata(rootPath, f) ==
  scanGuidelinesDir(f, PathJoin(rootPath, GUIDELINES), PathJoin(rootPath, GUIDELINES),
                    ScanAcc(EmptyMap, <<>>))

\* README.md, readme.md, Readme.md
readmeFiles == << <<"R", "E", "A", "D", "M", "E">> \o MARKDOWN,
                  <<"r", "e", "a", "d", "m", "e">> \o MARKDOWN,
                  <<"R", "e", "a", "d", "m", "e">> \o MARKDOWN >>

FrameworkMetadata(name, path, extracted) ==
  [name |-> name, path |-> path, description |-> extracted.content,
   metadataSource |-> extracted.source]

RECURSIVE scanReadmes(_, _, _, _, _)
RECURSIVE scanReadme(_, _, _, _, _, _, _)

\* the inner loop over the README variants of one framework directory
scanReadmes(f, frameworkPath, name, j, acc) ==
  IF j > Len(readmeFiles) THEN acc
  ELSE scanReadme(f, frameworkPath, name, j,
                  Logged(acc, "access", PathJoin(frameworkPath, readmeFiles[j])),
                  PathJoin(frameworkPath, readmeFiles[j]),
                  readFileSync(f, PathJoin(frameworkPath, readmeFiles[j])))

\* scanReadme without its break: the loop goes on after an entry is set
scanReadme_NoBreak(f, frameworkPath, name, j, acc, readmePath, content) ==
  IF ~existsSync(f, readmePath) THEN scanReadmes(f, frameworkPath, name, j + 1, acc)
  ELSE IF ~content.ok
    THEN scanReadmes(f, frameworkPath, name, j + 1, Logged(acc, "readFile", readmePath))
  ELSE scanReadmes(f, frameworkPath, name, j + 1,
         Inserted(Logged(acc, "readFile", readmePath), name,
                  FrameworkMetadata(name, readmePath, extractMetadata(content.value))))

\* fs.access, then fs.readFile; either failing goes on to the next variant,
\* the first that is read ends the loop
scanReadme(f, frameworkPath, name, j, acc, readmePath, content) ==
  IF ~existsSync(f, readmePath) THEN scanReadmes(f, frameworkPath, name, j + 1, acc)
  ELSE IF ~content.ok
    THEN scanReadmes(f, frameworkPath, name, j + 1, Logged(acc, "readFile", readmePath))
  ELSE Inserted(Logged(acc, "readFile", readmePath), name,
                FrameworkMetadata(name, readmePath, extractMetadata(content.value)))

RECURSIVE scanFrameworksEntries(_, _, _, _, _)
scanFrameworksEntries(f, frameworksDir, entries, i, acc) ==
  IF i > Len(entries) THEN acc
  ELSE IF Dirent(f, PathJoin(frameworksDir, entries[i])).isDirectory
    THEN scanFrameworksEntries(f, frameworksDir, entries, i + 1,
           scanReadmes(f, PathJoin(frameworksDir, entries[i]), entries[i], 1, acc))
  ELSE scanFrameworksEntries(f, frameworksDir, entries, i + 1, acc)

scanFrameworksListed(f, frameworksDir, entries, acc) ==
  IF ~entries.ok THEN acc
  ELSE scanFrameworksEntries(f, frameworksDir, entries.value, 1, acc)

scanFrameworksWithMetadata(rootPath, f) ==
  scanFrameworksListed(f, PathJoin(rootPath, FRAMEWORKS),
                       readdirSync(f, PathJoin(rootPath, FRAMEWORKS)),
                       Logged(ScanAcc(EmptyMap, <<>>), "readdir", PathJoin(rootPath, FRAMEWORKS)))

----------------------------------------------------------------------------
(* Loader *)

MsgAgentNotFound == <<"Agent '">>
MsgGuidelineNotFound == <<"Guideline '">>
MsgFrameworkNotFound == <<"Framework '">>
MsgAvailable == <<"' not found. Available: ">>

RECURSIVE JoinWith(_, _)
\* list.join(sep)
JoinWith(list, sep) ==
  IF list = <<>> THEN <<>>
  ELSE IF Len(list) = 1 THEN list[1]
  ELSE list[1] \o sep \o JoinWith(Tail(list), sep)

\* path.substring(root.length + 1)
BelowRoot(path, root) == SubSeq(path, Len(root) + 2, Len(path))

\* the Loader whose 'not found' message names no key
loadResource_NoKeys(map, sv, f, key, notFound) ==
  IF ~MapHas(map, key)
    THEN IoThrow(notFound \o key \o MsgAvailable, <<>>)
  ELSE IF StartsWith(map.at[key].path, getRootPath(sv))
    THEN safeReadFile(sv, f, BelowRoot(map.at[key].path, getRootPath(sv)))
  ELSE safeReadFile(sv, f, map.at[key].path)

\* the body shared by loadAgent, loadGuideline and loadFramework
loadResource(map, sv, f, key, notFound) ==
  IF ~MapHas(map, key)
    THEN IoThrow(notFound \o key \o MsgAvailable \o JoinWith(MapKeys(map), <<",", " ">>), <<>>)
  ELSE IF StartsWith(map.at[key].path, getRootPath(sv))
    THEN safeReadFile(sv, f, BelowRoot(map.at[key].path, getRootPath(sv)))
  ELSE safeReadFile(sv, f, map.at[key].path)

loadAgent(map, sv, f, agentName) == loadResource(map, sv, f, agentName, MsgAgentNotFound)

loadGuideline(map, sv, f, guidelinePath) ==
  loadResource(map, sv, f, guidelinePath, MsgGuidelineNotFound)

loadFramework(map, sv, f, frameworkName) ==
  loadResource(map, sv, f, frameworkName, MsgFrameworkNotFound)

----------------------------------------------------------------------------
(* The trees the model runs on *)

nR == <<"r">>
nRx == <<"r", "x">>
nE == <<"e">>
nW == <<"w">>
nP == <<"p">>
nL == <<"l">>
nD == <<"d">>
nS == <<"s">>
nAmd == <<"a", ".", "m", "d">>
nBMD == <<"b", ".", "M", "D">>
nCmd == <<"c", ".", ".", "d", ".", "m", "d">>
nGmd == <<"g", ".", "m", "d">>
nHmd == <<"h", ".", "m", "d">>
nT == <<"t">>
nF == <<"f">>
nReadmeLower == <<"r", "e", "a", "d", "m", "e", ".", "m", "d">>

\* AI_CONTEXT_ROOT
RootPath == AbsPath(<<nR>>)

Reverse(q) == [i \in 1..Len(q) |-> q[Len(q) + 1 - i]]

MakeFs(pairs) == [p \in {x[1] : x \in pairs} |-> (CHOOSE x \in pairs : x[1] = p)[2]]

\* One tree: the context root /r with its three kinds, its sibling /rx whose
\* name begins with the root's, and /e outside.  /r/agents/l and /r/agents/d
\* are symbolic links to a file and to a directory.
Tree(o) ==
  LET ord(q) == IF o.rev THEN Reverse(q) ELSE q
      A(n) == AbsPath(<<nR, AGENTS, n>>)
  IN MakeFs({
    <<AbsPath(<<>>), Dir(TRUE, ord(<<nE, nR, nRx, nW>>))>>,
    <<AbsPath(<<nW>>), Dir(TRUE, <<>>)>>,
    <<AbsPath(<<nE>>), Dir(o.dirPerm, <<nP>>)>>,
    <<AbsPath(<<nE, nP>>), File(TRUE, <<"s", "e", "c", "r", "e", "t">>)>>,
    <<AbsPath(<<nRx>>), Dir(TRUE, <<nP>>)>>,
    <<AbsPath(<<nRx, nP>>), File(o.filePerm, <<"s", "i", "b">>)>>,
    <<AbsPath(<<nR>>), Dir(TRUE, ord(<<AGENTS, FRAMEWORKS, GUIDELINES>>))>>,
    <<AbsPath(<<nR, AGENTS>>), Dir(o.agentsPerm, ord(<<nAmd, nBMD, nCmd, nD, nL, nS>>))>>,
    <<A(nAmd), File(o.filePerm, <<"-", "-", "-", "LF", "A", "LF", "-", "-", "-", "LF", "#", "T">>)>>,
    <<A(nBMD), File(TRUE, <<"B">>)>>,
    <<A(nCmd), File(TRUE, <<"C">>)>>,
    <<A(nL), Link(IF o.linksOut THEN AbsPath(<<nRx, nP>>) ELSE A(nBMD))>>,
    <<A(nD), Link(IF o.linksOut THEN AbsPath(<<nE>>) ELSE AbsPath(<<nR, GUIDELINES>>))>>,
    <<A(nS), Dir(TRUE, <<nAmd>>)>>,
    <<AbsPath(<<nR, AGENTS, nS, nAmd>>), File(TRUE, <<"S">>)>>,
    <<AbsPath(<<nR, GUIDELINES>>), Dir(o.dirPerm, ord(<<nGmd, nP, nT>>))>>,
    <<AbsPath(<<nR, GUIDELINES, nGmd>>), File(TRUE, <<"G">>)>>,
    <<AbsPath(<<nR, GUIDELINES, nP>>), File(TRUE, <<"P">>)>>,
    <<AbsPath(<<nR, GUIDELINES, nT>>), Dir(TRUE, <<nHmd>>)>>,
    <<AbsPath(<<nR, GUIDELINES, nT, nHmd>>), File(TRUE, <<"H">>)>>,
    <<AbsPath(<<nR, FRAMEWORKS>>), Dir(TRUE, ord(<<nF, nGmd>>))>>,
    <<AbsPath(<<nR, FRAMEWORKS, nF>>), Dir(TRUE, <<nReadmeLower>>)>>,
    <<AbsPath(<<nR, FRAMEWORKS, nF, nReadmeLower>>), File(TRUE, <<"F">>)>>,
    <<AbsPath(<<nR, FRAMEWORKS, nGmd>>), File(TRUE, <<"K">>)>>
  })

TreeOpts ==
  [linksOut : BOOLEAN, filePerm : BOOLEAN, dirPerm : BOOLEAN, agentsPerm : BOOLEAN,
   rev : BOOLEAN]

\* the trees the validator's operations are run on
SecOpts == {o \in TreeOpts : o.agentsPerm /\ ~o.rev /\ o.dirPerm = o.filePerm}

----------------------------------------------------------------------------
(* The requests handed to the validator *)

\* the names a requested path is made of
ReqNames == {nR, nRx, nE, AGENTS, nAmd, nD, nP}

BuildReq(abs, segs) == (IF abs THEN <<"/">> ELSE <<>>) \o JoinSegs(segs)

PathReqs ==
  UNION {{BuildReq(abs, t) : abs \in BOOLEAN, t \in [1..n -> ReqNames]} : n \in 0..MaxSegs}

\* what the denylist is about, and near misses of it
LexTokens == {
  DotDot,
  <<"~">>,
  <<"$", "{", "A", "}">>,
  <<"$", "(", "A", ")">>,
  <<"$", "{", "A", "LF", "}">>,
  <<"$", "(", "A", "LF", ")">>,
  <<"$", "A">>,
  <<"%", "2", "e">>,
  <<"%", "2", "g">>,
  <<"\\", "x", "2", "e">>,
  <<"\\", "x", "g">>,
  <<"A", "NUL">>,
  <<".">> }

LexPrefixes == {<<>>, AGENTS \o <<"/">>, RootPath \o <<"/">>, AbsPath(<<nRx>>) \o <<"/">>}

LexSuffixes == {<<>>, <<"/">> \o AGENTS \o <<"/">> \o nAmd, <<"/">> \o nE \o <<"/">> \o nP}

LexReqs == {pre \o tok \o suf : pre \in LexPrefixes, tok \in LexTokens, suf \in LexSuffixes}

Requests == PathReqs \cup LexReqs

----------------------------------------------------------------------------
(* State *)

\* no AiContextMCPServer has been constructed
NoServer == [pc |-> "none"]

NoOp == [op |-> "none", arg |-> <<>>, ok |-> TRUE, flag |-> FALSE, value |-> <<>>,
         msg |-> <<>>, ops |-> <<>>]


InitCommon ==
  /\ security = [normalizedRoot |-> SecurityValidator(fs, RootPath).normalizedRoot]
  /\ last = NoOp
  /\ agentsMetadata = EmptyMap
  /\ guidelinesMetadata = EmptyMap
  /\ frameworksMetadata = EmptyMap
  /\ scanned = {}
  /\ scanLog = <<>>
  /\ edits = 0
  /\ server = NoServer

\* The validator's operations, each on any request against any tree.  The
\* validator keeps nothing between calls, so a behaviour is one call.
InitSec ==
  /\ fs \in {Tree(o) : o \in SecOpts}
  /\ req \in Requests
  /\ InitCommon

\* the call's outcome is kept in `last`; nothing else changes
Answered(op, arg, ok, flag, value, msg, ops) ==
  /\ last' = [op |-> op, arg |-> arg, ok |-> ok, flag |-> flag, value |-> value,
              msg |-> msg, ops |-> ops]
  /\ UNCHANGED <<fs, security, req, agentsMetadata, guidelinesMetadata,
                 frameworksMetadata, scanned, scanLog, edits, server>>

\* a call that returns a path or throws
AnsweredPath(op, arg, r) == Answered(op, arg, r.ok, FALSE, r.path, r.msg, r.ops)

\* a call that returns a boolean
AnsweredBool(op, arg, r) == Answered(op, arg, TRUE, r.value, <<>>, <<>>, r.ops)

\* a call that returns content or a listing, or throws
AnsweredIo(op, arg, r) == Answered(op, arg, r.ok, FALSE, r.value, r.msg, r.ops)

ValidatePath ==
  /\ last.op = "none"
  /\ AnsweredPath("validatePath", req, validatePath(security, fs, req))

IsFileReadable ==
  /\ last.op = "none"
  /\ AnsweredBool("isFileReadable", req, isFileReadable(security, fs, req))

IsDirectoryAccessible ==
  /\ last.op = "none"
  /\ AnsweredBool("isDirectoryAccessible", req, isDirectoryAccessible(security, fs, req))

SafeReadFile ==
  /\ last.op = "none"
  /\ AnsweredIo("safeReadFile", req, safeReadFile(security, fs, req))

SafeListDirectory ==
  /\ last.op = "none"
  /\ AnsweredIo("safeListDirectory", req, safeListDirectory(security, fs, req))

NextSec ==
  \/ ValidatePath
  \/ IsFileReadable
  \/ IsDirectoryAccessible
  \/ SafeReadFile
  \/ SafeListDirectory

SpecSec == InitSec /\ [][NextSec]_vars

----------------------------------------------------------------------------
(* Scans, loads and changes of the tree: the specification Spec *)

Kinds == {"agents", "guidelines", "frameworks"}

\* the trees the server is started on
ScanOpts == {o \in TreeOpts : o.linksOut /\ o.dirPerm /\ o.agentsPerm /\ ~o.rev}

Init ==
  /\ fs \in {Tree(o) : o \in ScanOpts}
  /\ req = <<>>
  /\ InitCommon

\* the root the server hands to the Scanner: path.resolve(AI_CONTEXT_ROOT)
ServerRoot == PathResolve1(RootPath)

\* a scan has completed: its filesystem accesses are added to the log
ScanDone(op, kind, log) ==
  /\ scanLog' = scanLog \o log
  /\ scanned' = scanned \cup {kind}
  /\ last' = [NoOp EXCEPT !.op = op]
  /\ UNCHANGED <<fs, security, req, edits, server>>

ScanAgents ==
  /\ "agents" \notin scanned
  /\ agentsMetadata' = scanAgentsWithMetadata(ServerRoot, fs).map
  /\ ScanDone("scanAgents", "agents", scanAgentsWithMetadata(ServerRoot, fs).log)
  /\ UNCHANGED <<guidelinesMetadata, frameworksMetadata>>

ScanGuidelines ==
  /\ "guidelines" \notin scanned
  /\ guidelinesMetadata' = scanGuidelinesWithMetadata(ServerRoot, fs).map
  /\ ScanDone("scanGuidelines", "guidelines", scanGuidelinesWithMetadata(ServerRoot, fs).log)
  /\ UNCHANGED <<agentsMetadata, frameworksMetadata>>

ScanFrameworks ==
  /\ "frameworks" \notin scanned
  /\ frameworksMetadata' = scanFrameworksWithMetadata(ServerRoot, fs).map
  /\ ScanDone("scanFrameworks", "frameworks", scanFrameworksWithMetadata(ServerRoot, fs).log)
  /\ UNCHANGED <<agentsMetadata, guidelinesMetadata>>

\* the Loader is constructed once every scan has completed
LoaderReady == scanned = Kinds

\* a key no scan produces
MissingKey == <<"z">>

KeysToLoad(map) == {map.order[i] : i \in 1..Len(map.order)} \cup {MissingKey}

LoadAgent ==
  /\ LoaderReady
  /\ \E key \in KeysToLoad(agentsMetadata) :
       AnsweredIo("loadAgent", key, loadAgent(agentsMetadata, security, fs, key))

LoadGuideline ==
  /\ LoaderReady
  /\ \E key \in KeysToLoad(guidelinesMetadata) :
       AnsweredIo("loadGuideline", key, loadGuideline(guidelinesMetadata, security, fs, key))

LoadFramework ==
  /\ LoaderReady
  /\ \E key \in KeysToLoad(frameworksMetadata) :
       AnsweredIo("loadFramework", key, loadFramework(frameworksMetadata, security, fs, key))

\* some entry of the map names the file at p as its backing file
HoldsFile(map, p) == \E k \in DOMAIN map.at : map.at[k].path = p

\* the files of the context root that a load will read, which someone may
\* rewrite or remove while the server runs
ContextFiles(f) ==
  {p \in DOMAIN f :
     /\ f[p].kind = "file"
     /\ StartsWith(p, ServerRoot \o <<"/">>)
     /\ \/ HoldsFile(agentsMetadata, p)
        \/ HoldsFile(guidelinesMetadata, p)
        \/ HoldsFile(frameworksMetadata, p)}

NewContent == <<"n", "e", "w">>

Dirname(p) == AbsPath(SubSeq(Split(p), 2, Len(Split(p)) - 1))
Basename(p) == Split(p)[Len(Split(p))]

Without(q, x) == SelectSeq(q, LAMBDA y : y # x)

Changed(op, p) ==
  /\ edits' = edits + 1
  /\ last' = [NoOp EXCEPT !.op = op, !.arg = p]
  /\ UNCHANGED <<security, req, agentsMetadata, guidelinesMetadata, frameworksMetadata,
                 scanned, scanLog, server>>

\* someone rewrites a file after the scans
EditFile ==
  /\ LoaderReady /\ edits < MaxEdits
  /\ \E p \in ContextFiles(fs) :
       /\ fs' = [fs EXCEPT ![p].content = NewContent]
       /\ Changed("editFile", p)

\* someone removes a file after the scans
DeleteFile ==
  /\ LoaderReady /\ edits < MaxEdits
  /\ \E p \in ContextFiles(fs) :
       /\ fs' = [q \in DOMAIN fs \ {p} |->
                   IF q = Dirname(p)
                     THEN [fs[q] EXCEPT !.entries = Without(@, Basename(p))]
                     ELSE fs[q]]
       /\ Changed("deleteFile", p)

Next ==
  \/ ScanAgents
  \/ ScanGuidelines
  \/ ScanFrameworks
  \/ LoadAgent
  \/ LoadGuideline
  \/ LoadFramework
  \/ EditFile
  \/ DeleteFile

Spec == Init /\ [][Next]_vars

----------------------------------------------------------------------------
(* What the claims speak of *)

\* p is the root directory or a location below it, judged on whole components
InsideRoot(p) ==
  \/ p = security.normalizedRoot
  \/ StartsWith(p, security.normalizedRoot \o <<"/">>)

\* the location a request names before any link is followed
LogicalPath(r) == PathResolve(security.normalizedRoot, r)

\* the target of p exists and its real path is outside the root
EscapesByLink(p) == realpathSync(fs, p).ok /\ ~InsideRoot(realpathSync(fs, p).path)

\* the path text an error message shows after its fixed text
Shown(msg) == Tail(msg)

IoOps == {"safeReadFile", "safeListDirectory"}
ThrowingOps == {"validatePath"} \cup IoOps

----------------------------------------------------------------------------
(* Claims about the SecurityValidator, checked under SpecSec *)

\* C1: validatePath of a request that passes the denylist and whose logical
\* path is under the root, but whose target exists with a real path outside
\* the root, throws 'Symbolic link points outside boundary' and returns no path.
C1_LinkOutsideThrows ==
  ( /\ last.op = "validatePath"
    /\ ~containsDangerousPatterns(last.arg)
    /\ InsideRoot(LogicalPath(last.arg))
    /\ EscapesByLink(LogicalPath(last.arg)) )
  => (~last.ok /\ last.msg = MsgSymlink)

\* C2: every path validatePath returns is the root or a location inside it,
\* on whole components, and on the real path when the target exists.
C2_ReturnedPathInsideRoot ==
  (last.op = "validatePath" /\ last.ok)
  => (InsideRoot(last.value) /\ ~EscapesByLink(last.value))

\* the lexical patterns as the specification lists them
HasExpansion(s, open, close) ==
  \E i \in 1..Len(s), j \in 1..Len(s) :
     i + 1 < j /\ s[i] = "$" /\ s[i + 1] = open /\ s[j] = close

HasEncodedOctet(s, lead) ==
  \E i \in 1..Len(s) :
     /\ i + Len(lead) + 1 <= Len(s)
     /\ SubSeq(s, i, i + Len(lead) - 1) = lead
     /\ {s[i + Len(lead)], s[i + Len(lead) + 1]} \subseteq HexDigits

Denylisted(s) ==
  \/ Includes(s, <<".", ".">>)
  \/ StartsWith(s, <<"~">>)
  \/ HasExpansion(s, "{", "}")
  \/ HasExpansion(s, "(", ")")
  \/ HasEncodedOctet(s, <<"%">>)
  \/ HasEncodedOctet(s, <<"\\", "x">>)
  \/ Includes(s, <<"NUL">>)

\* C3: validatePath throws the dangerous-patterns error for every request
\* that contains '..', starts with '~', contains '${...}' or '$(...)', a
\* percent-encoded octet, a backslash-x escape or a NUL byte.
C3_DenylistedAlwaysThrows ==
  (last.op = "validatePath" /\ Denylisted(last.arg))
  => (~last.ok /\ StartsWith(last.msg, MsgDangerous))

C8_MessagesNeverLeak ==
  (last.op \in ThrowingOps /\ ~last.ok)
  => /\ ~IsAbsolute(Shown(last.msg))
     /\ (containsDangerousPatterns(last.arg) \/ ~InsideRoot(LogicalPath(last.arg)))
          => Shown(last.msg) \in {<<>>, Sanitized}

\* the target of p is missing, or is there and may not be read
MissingOrUnreadable(p) ==
  \/ ~realpathSync(fs, p).ok
  \/ ~fs[realpathSync(fs, p).path].perm

\* the path p as it reads from the root
RootRelative(p) ==
  JoinSegs(SubSeq(Split(p), Len(Split(security.normalizedRoot)) + 1, Len(Split(p))))

\* C9: when safeReadFile or safeListDirectory fails because a target inside
\* the root is missing or unreadable, the message shows the path relative to
\* the root, not the placeholder and not the absolute path.
C9_InsidePathShownRelative ==
  ( /\ last.op \in IoOps
    /\ ~last.ok
    /\ ~containsDangerousPatterns(last.arg)
    /\ InsideRoot(LogicalPath(last.arg))
    /\ ~EscapesByLink(LogicalPath(last.arg))
    /\ MissingOrUnreadable(LogicalPath(last.arg)) )
  => Shown(last.msg) = RootRelative(LogicalPath(last.arg))

\* the target of p, links followed, is a node of the given kind that the
\* process may read (and, for a directory, enter)
TargetIs(p, kind) ==
  LET r == realpathSync(fs, p)
  IN r.ok /\ fs[r.path].kind = kind /\ fs[r.path].perm

\* C10: isFileReadable and isDirectoryAccessible never throw; each returns
\* true exactly when the path validates and its target exists, is a regular
\* file (a directory) and passes the permission check.
C10_PredicatesTotal ==
  LET v == validatePath(security, fs, last.arg)
  IN /\ last.op = "isFileReadable"
          => (last.ok /\ last.flag = (v.ok /\ TargetIs(v.path, "file")))
     /\ last.op = "isDirectoryAccessible"
          => (last.ok /\ last.flag = (v.ok /\ TargetIs(v.path, "dir")))

C10_Witness ==
  /\ last.op = "isFileReadable"
  /\ ~last.flag
  /\ validatePath(security, fs, last.arg).ok
  /\ existsSync(fs, validatePath(security, fs, last.arg).path)

----------------------------------------------------------------------------
(* Claims about the Scanner and the Loader, checked under Spec *)

LoadOps == {"loadAgent", "loadGuideline", "loadFramework"}

MapOf(op) ==
  CASE op = "loadAgent" -> agentsMetadata
    [] op = "loadGuideline" -> guidelinesMetadata
    [] op = "loadFramework" -> frameworksMetadata

\* C5: after a scan, loading any key of a kind's map returns exactly the
\* content its backing file has at the time of the load.
C5_LoadReturnsCurrentContent ==
  ( /\ last.op \in LoadOps
    /\ MapHas(MapOf(last.op), last.arg)
    /\ readFileSync(fs, MapOf(last.op).at[last.arg].path).ok )
  => ( /\ last.ok
       /\ last.value = readFileSync(fs, MapOf(last.op).at[last.arg].path).value )

\* the markdown files the walk of a kind's directory meets: below it, with
\* every directory on the way listable
MarkdownFilesOf(kindDir) ==
  {p \in DOMAIN fs :
     /\ fs[p].kind = "file"
     /\ StartsWith(p, PathJoin(ServerRoot, kindDir) \o <<"/">>)
     /\ IsMarkdown(Basename(p))
     /\ realpathSync(fs, p) = [ok |-> TRUE, path |-> p]
     /\ readdirSync(fs, Dirname(p)).ok}

\* C6: in scanAgentsWithMetadata and scanGuidelinesWithMetadata a file whose
\* read fails is not inserted, and every other readable markdown file of the
\* tree has its entry.
C6_FailedReadSkipsOnlyThatFile ==
  /\ last.op = "scanAgents" =>
       \A p \in MarkdownFilesOf(AGENTS) :
          /\ ~fs[p].perm => ~HoldsFile(agentsMetadata, p)
          /\ fs[p].perm => MapHas(agentsMetadata, StripMarkdown(Basename(p)))
  /\ last.op = "scanGuidelines" =>
       \A p \in MarkdownFilesOf(GUIDELINES) :
          /\ ~fs[p].perm => ~HoldsFile(guidelinesMetadata, p)
          /\ fs[p].perm => HoldsFile(guidelinesMetadata, p)

\* C7: every directory listing and file read of the three scans goes through
\* the SecurityValidator.
C7_ScansGoThroughValidator ==
  \A i \in 1..Len(scanLog) : scanLog[i].via = "security"

----------------------------------------------------------------------------
(* The validator's construction: the specification SpecCtor *)

\* let securityValidator: SecurityValidator | null = null
NoValidator == [normalizedRoot |-> <<>>]

MsgNotInitialized == <<"Security: SecurityValidator not initialized">>

\* the root paths a caller may hand to the constructor
RootCandidates ==
  { RootPath,
    <<>>,
    nR,
    AbsPath(<<<<"z", "z">>>>),
    AbsPath(<<nRx>>),
    AbsPath(<<nRx, nP>>),
    AbsPath(<<nR, AGENTS, nAmd>>),
    AbsPath(<<nR, AGENTS, nD>>),
    AbsPath(<<nR, AGENTS, nL>>) }

\* the paths validated once a validator is there
CtorRequests == {<<>>, AGENTS, AbsPath(<<nRx>>), AGENTS \o <<"/">> \o nAmd}

InitCtor ==
  /\ fs \in {Tree(o) : o \in SecOpts}
  /\ req = <<>>
  /\ security = NoValidator
  /\ last = NoOp
  /\ agentsMetadata = EmptyMap
  /\ guidelinesMetadata = EmptyMap
  /\ frameworksMetadata = EmptyMap
  /\ scanned = {}
  /\ scanLog = <<>>
  /\ edits = 0
  /\ server = NoServer

\* the constructor's outcome for rootPath: `flag` tells that the constructor ran
Constructed(rootPath, sv) ==
  /\ security' = IF sv.ok THEN [normalizedRoot |-> sv.normalizedRoot] ELSE security
  /\ last' = [op |-> "initializeSecurity", arg |-> rootPath, ok |-> sv.ok, flag |-> TRUE,
              value |-> sv.normalizedRoot, msg |-> sv.msg, ops |-> <<>>]

\* initializeSecurity that constructs a validator at every call
InitializeSecurity_Reinstall ==
  /\ \E rootPath \in RootCandidates :
       Constructed(rootPath, SecurityValidator(fs, rootPath))
  /\ UNCHANGED <<fs, req, agentsMetadata, guidelinesMetadata, frameworksMetadata,
                 scanned, scanLog, edits, server>>

\* initializeSecurity(rootPath): constructs the validator unless there is one
InitializeSecurity ==
  /\ \E rootPath \in RootCandidates :
       IF security = NoValidator
         THEN Constructed(rootPath, SecurityValidator(fs, rootPath))
         ELSE /\ security' = security
              /\ last' = [op |-> "initializeSecurity", arg |-> rootPath, ok |-> TRUE,
                          flag |-> FALSE, value |-> security.normalizedRoot,
                          msg |-> <<>>, ops |-> <<>>]
  /\ UNCHANGED <<fs, req, agentsMetadata, guidelinesMetadata, frameworksMetadata,
                 scanned, scanLog, edits, server>>

\* getSecurity().validatePath(p): getSecurity throws while there is no validator
GetSecurityValidatePath ==
  \E p \in CtorRequests :
     IF security = NoValidator
       THEN Answered("getSecurity", p, FALSE, FALSE, <<>>, MsgNotInitialized, <<>>)
       ELSE AnsweredPath("validatePath", p, validatePath(security, fs, p))

NextCtor ==
  \/ InitializeSecurity
  \/ GetSecurityValidatePath

SpecCtor == InitCtor /\ [][NextCtor]_vars

\* p, resolved as the process resolves it, is a directory that is there
IsDirectoryThere(p) ==
  /\ realpathSync(fs, PathResolve1(p)).ok
  /\ fs[realpathSync(fs, PathResolve1(p)).path].kind = "dir"

\* C11: constructing a SecurityValidator with a root that does not exist or is
\* not a directory throws and leaves no validator; a validator that is there
\* has a root that is a directory, and no path is validated without a validator.
C11_UnverifiedRootRefused ==
  /\ (last.op = "initializeSecurity" /\ last.flag /\ ~IsDirectoryThere(last.arg))
       => (~last.ok /\ last.msg # <<>> /\ security = NoValidator)
  /\ security # NoValidator => IsDirectoryThere(security.normalizedRoot)
  /\ last.op = "validatePath" => security # NoValidator

C11_Witness ==
  /\ last.op = "initializeSecurity"
  /\ last.flag
  /\ last.arg = AbsPath(<<nR, AGENTS, nAmd>>)
  /\ ~last.ok
  /\ security = NoValidator

----------------------------------------------------------------------------
(* Claims about reads that fail, checked under Spec *)

\* the last operation handed a path to safeReadFile
ReadsFile ==
  \/ last.op = "safeReadFile"
  \/ (last.op \in LoadOps /\ MapHas(MapOf(last.op), last.arg))

\* the path it handed over
ReadArgument ==
  IF last.op = "safeReadFile" THEN last.arg
  ELSE RootRelative(MapOf(last.op).at[last.arg].path)

\* C12: safeReadFile throws, and reads no file, whenever its argument fails
\* validation or the target is not an existing readable regular file; so a
\* load of a key whose file was deleted after the scan fails with an error
\* and returns no content.
C12_FailedReadThrows ==
  ( /\ ReadsFile
    /\ \/ ~validatePath(security, fs, ReadArgument).ok
       \/ ~TargetIs(validatePath(security, fs, ReadArgument).path, "file") )
  => ( /\ ~last.ok
       /\ last.msg # <<>>
       /\ last.value = <<>>
       /\ \A i \in 1..Len(last.ops) : last.ops[i].fn # "readFileSync" )

C12_Witness ==
  /\ last.op \in LoadOps
  /\ MapHas(MapOf(last.op), last.arg)
  /\ MapOf(last.op).at[last.arg].path \notin DOMAIN fs
  /\ ~last.ok

----------------------------------------------------------------------------
(* extractMetadata on documents: the specification SpecMeta *)

\* a run of text with no break in it, and a sentence
LongRun == [i \in 1..MaxRun |-> "x"]

\* what documents are made of: delimiter lines, frontmatter blocks, a metadata
\* comment and its parts, a heading, a directive, text and blank lines
Fragments == {
  <<"-", "-", "-">>,
  <<"-", "-", "-", "LF", " ", "a", "LF", "-", "-", "-">>,
  <<"-", "-", "-", "LF", "LF", "-", "-", "-">>,
  <<"<", "!", "-", "-", " ", "m", "e", "t", "a", "d", "a", "t", "a", "LF", "h", "LF", "-", "-", ">">>,
  <<"<", "!", "-", "-", "m", "e", "t", "a", "d", "a", "t", "a", " ", "h", " ", "-", "-", ">">>,
  <<"#", " ", "T">>,
  <<"R", "e", "a", "d", ":", " ", "g">>,
  <<"B", ".">>,
  <<" ">>,
  <<>>,
  LongRun \o <<".">> }

\* the documents: up to MaxFragments fragments, one to a line
Documents ==
  UNION {{JoinWith(d, <<"LF">>) : d \in [1..n -> Fragments]} : n \in 0..MaxFragments}

InitMeta ==
  /\ fs \in {Tree(o) : o \in {p \in ScanOpts : p.filePerm}}
  /\ req \in Documents
  /\ InitCommon

\* extractMetadata(content), as each scan calls it on what it has read
ExtractMetadata ==
  /\ last.op = "none"
  /\ Answered("extractMetadata", req, TRUE, FALSE, extractMetadata(req), <<>>, <<>>)

NextMeta == ExtractMetadata

SpecMeta == InitMeta /\ [][NextMeta]_vars

----------------------------------------------------------------------------
(* Claims about extractMetadata, checked under SpecMeta *)

\* the places of sub in s
Places(s, sub) == {i \in 1..(Len(s) - Len(sub) + 1) : SubSeq(s, i, i + Len(sub) - 1) = sub}

\* the document has the frontmatter shape ---\n...\n--- at its very start
StartsWithFrontmatter(doc) ==
  /\ StartsWith(doc, <<"-", "-", "-", "LF">>)
  /\ \E k \in Places(doc, <<"LF", "-", "-", "-">>) : k > 4

\* the place of the closing delimiter's line break
FrontmatterEnd(doc) ==
  CHOOSE k \in Places(doc, <<"LF", "-", "-", "-">>) :
     k > 4 /\ \A j \in Places(doc, <<"LF", "-", "-", "-">>) : j > 4 => k <= j

\* the raw inner text of the frontmatter block
FrontmatterBlock(doc) == SubSeq(doc, 5, FrontmatterEnd(doc) - 1)

\* from i to j the document holds only white space, a line break in it
BreakBetween(doc, i, j) ==
  /\ \A n \in i..j : doc[n] \in WhiteSpace
  /\ \E n \in i..j : doc[n] = "LF"

\* a comment opens at i with the word metadata ending at w, a line break
\* follows up to b, and its end token is at c
IsMetadataComment(doc, i, w, b, c) ==
  /\ i + 4 <= w - 7
  /\ \A n \in (i + 4)..(w - 8) : doc[n] \in WhiteSpace
  /\ BreakBetween(doc, w + 1, b)
  /\ b < c

\* the metadata comments of the document, each as <<i, w, b, c>>
MetadataComments(doc) ==
  {m \in {<<i, v + 7, b, c>> : i \in Places(doc, <<"<", "!", "-", "-">>),
                               v \in Places(doc, <<"m", "e", "t", "a", "d", "a", "t", "a">>),
                               b \in Places(doc, <<"LF">>),
                               c \in Places(doc, <<"-", "-", ">">>)} :
     IsMetadataComment(doc, m[1], m[2], m[3], m[4])}

HasMetadataComment(doc) == MetadataComments(doc) # {}

\* text lies in the document between the places lo and hi
LiesWithin(text, doc, lo, hi) ==
  \E a \in lo..(hi + 1), b \in (lo - 1)..hi : text = SubSeq(doc, a, b)

C14_FallbackTotal ==
  ( /\ last.op = "extractMetadata"
    /\ ~StartsWithFrontmatter(last.arg)
    /\ ~HasMetadataComment(last.arg) )
  => ( /\ last.value.source = "paragraph"
       /\ last.value.content # <<>>
       /\ \E n \in 1..Len(last.value.content) : last.value.content[n] \notin WhiteSpace )

C14_Witness ==
  /\ last.op = "extractMetadata"
  /\ \A n \in 1..Len(last.arg) : last.arg[n] \in WhiteSpace
  /\ last.value = [content |-> NoDescription, source |-> "paragraph"]

\* a document longer than the cap of the fallback is cut to a text within it
C14_LongParagraphCut ==
  /\ last.op = "extractMetadata"
  /\ Len(last.arg) > ParagraphCap
  /\ last.value.source = "paragraph"
  /\ Len(last.value.content) \in (CutThreshold + 1)..ParagraphCap

\* C15: for a document that begins with a '---' delimiter line, a block and a
\* closing '---' delimiter line, the content returned is exactly the raw inner
\* text of the block, unchanged, and the source is 'yaml'.
C15_FrontmatterVerbatim ==
  ( /\ last.op = "extractMetadata"
    /\ StartsWithFrontmatter(last.arg) )
  => last.value = [content |-> FrontmatterBlock(last.arg), source |-> "yaml"]

\* the block of a frontmatter came back without its leading white space
C15_BlockTrimmed ==
  /\ last.op = "extractMetadata"
  /\ StartsWithFrontmatter(last.arg)
  /\ last.value.source = "yaml"
  /\ last.value.content = Trim(FrontmatterBlock(last.arg))
  /\ last.value.content # FrontmatterBlock(last.arg)

\* C16: in the paragraph fallback everything from the first line that starts
\* with 'Read:' onward is removed before the paragraph is taken, so the
\* content of source 'paragraph' never holds a 'Read:' directive line.
C16_NoReadDirectiveInParagraph ==
  ( /\ last.op = "extractMetadata"
    /\ last.value.source = "paragraph" )
  => ( /\ ~StartsWith(last.value.content, <<"R", "e", "a", "d", ":">>)
       /\ Places(last.value.content, <<"LF", "R", "e", "a", "d", ":">>) = {} )

\* a heading followed at once by a directive line: the directive is the content
C16_DirectiveKept ==
  /\ last.op = "extractMetadata"
  /\ last.arg = <<"#", " ", "T", "LF", "R", "e", "a", "d", ":", " ", "g">>
  /\ last.value = [content |-> <<"R", "e", "a", "d", ":", " ", "g">>, source |-> "paragraph"]

----------------------------------------------------------------------------
(* The scans on many trees: the specification SpecScan *)

\* the tree every kind of which is there and may be read
FullTree ==
  Tree([linksOut |-> TRUE, filePerm |-> TRUE, dirPerm |-> TRUE, agentsPerm |-> TRUE,
        rev |-> FALSE])

\* how a README variant of a framework directory is found: not there, there
\* without read permission, there and readable
ReadmeStates == {"none", "locked", "open"}

FrameworkDir == AbsPath(<<nR, FRAMEWORKS, nF>>)

\* the tree f whose framework directory f holds the README variants as r says
WithReadmes(f, r) ==
  MakeFs({<<p, f[p]>> : p \in {q \in DOMAIN f : ~StartsWith(q, FrameworkDir)}}
    \cup {<<FrameworkDir,
            Dir(TRUE, SelectSeq(readmeFiles, LAMBDA n :
                        \E j \in 1..Len(readmeFiles) : readmeFiles[j] = n /\ r[j] # "none"))>>}
    \cup {<<PathJoin(FrameworkDir, readmeFiles[j]), File(r[j] = "open", readmeFiles[j])>> :
            j \in {i \in 1..Len(readmeFiles) : r[i] # "none"}})

\* the tree f without the directory of a kind and what is below it
Pruned(f, kind) ==
  MakeFs({<<p, IF p = RootPath THEN [f[p] EXCEPT !.entries = Without(@, kind)] ELSE f[p]>> :
            p \in {q \in DOMAIN f : ~StartsWith(q, AbsPath(<<nR, kind>>))}})

\* the tree f whose directory of a kind may not be listed
Locked(f, kind) == [f EXCEPT ![AbsPath(<<nR, kind>>)].perm = FALSE]

\* a file name with a backslash in it, as POSIX allows
nTk == <<"t", "\\", "k", ".", "m", "d">>

\* the tree f with one more markdown file directly under the guidelines root
WithGuideline(f, n) ==
  MakeFs({<<p, IF p = AbsPath(<<nR, GUIDELINES>>)
                 THEN [f[p] EXCEPT !.entries = Append(@, n)] ELSE f[p]>> : p \in DOMAIN f}
    \cup {<<AbsPath(<<nR, GUIDELINES, n>>), File(TRUE, <<"K">>)>>})

ScanTrees ==
  {Tree(o) : o \in {t \in TreeOpts : t.linksOut}}
    \cup {WithReadmes(FullTree, r) : r \in [1..Len(readmeFiles) -> ReadmeStates]}
    \cup {Pruned(FullTree, k) : k \in {AGENTS, GUIDELINES, FRAMEWORKS}}
    \cup {Locked(FullTree, k) : k \in {AGENTS, GUIDELINES, FRAMEWORKS}}
    \cup {WithGuideline(FullTree, nTk)}

InitScan ==
  /\ fs \in ScanTrees
  /\ req = <<>>
  /\ InitCommon

NextScan ==
  \/ ScanAgents
  \/ ScanGuidelines
  \/ ScanFrameworks

SpecScan == InitScan /\ [][NextScan]_vars

----------------------------------------------------------------------------
(* Claims about the scans, checked under SpecScan *)

FrameworksRoot == PathJoin(ServerRoot, FRAMEWORKS)

\* the names listed directly under the frameworks root
FrameworkEntries ==
  {readdirSync(fs, FrameworksRoot).value[i] :
     i \in 1..Len(readdirSync(fs, FrameworksRoot).value)}

\* the README variants of the framework n that can be read
ReadableReadmes(n) ==
  {j \in 1..Len(readmeFiles) :
     readFileSync(fs, PathJoin(PathJoin(FrameworksRoot, n), readmeFiles[j])).ok}

\* the first of them
FirstReadme(n) == CHOOSE j \in ReadableReadmes(n) : \A i \in ReadableReadmes(n) : j <= i

\* the scans touched the path p
Touched(p) == \E i \in 1..Len(scanLog) : scanLog[i].path = p

\* C17: scanFrameworksWithMetadata considers only the directories directly
\* under the frameworks root; for each it tries README.md, readme.md and
\* Readme.md in that order, the first readable one is the entry's path and no
\* later variant is tried; a directory with no readable variant has no entry.
C17_FirstReadableReadme ==
  "frameworks" \in scanned =>
    /\ \A k \in DOMAIN frameworksMetadata.at :
         k \in FrameworkEntries /\ fs[PathJoin(FrameworksRoot, k)].kind = "dir"
    /\ \A n \in FrameworkEntries :
         fs[PathJoin(FrameworksRoot, n)].kind = "dir" =>
           IF ReadableReadmes(n) = {} THEN ~MapHas(frameworksMetadata, n)
           ELSE /\ MapHas(frameworksMetadata, n)
                /\ frameworksMetadata.at[n].path =
                     PathJoin(PathJoin(FrameworksRoot, n), readmeFiles[FirstReadme(n)])
                /\ \A j \in 1..Len(readmeFiles) :
                     Touched(PathJoin(PathJoin(FrameworksRoot, n), readmeFiles[j]))
                       <=> j <= FirstReadme(n)

\* README.md is there and cannot be read, readme.md and Readme.md can: the
\* entry is readme.md's
C17_Witness ==
  /\ "frameworks" \in scanned
  /\ PathJoin(FrameworkDir, readmeFiles[1]) \in DOMAIN fs
  /\ ReadableReadmes(nF) = {2, 3}
  /\ MapHas(frameworksMetadata, nF)
  /\ frameworksMetadata.at[nF].path = PathJoin(FrameworkDir, readmeFiles[2])

GuidelinesRoot == PathJoin(ServerRoot, GUIDELINES)

\* the segments of the path p below the guidelines root
BelowGuidelines(p) == SubSeq(Split(p), Len(Split(GuidelinesRoot)) + 1, Len(Split(p)))

\* the segments joined with slashes, the extension of the last one removed
SlashJoinedStem(segs) ==
  JoinSegs([i \in 1..Len(segs) |-> IF i = Len(segs) THEN StripMarkdown(segs[i]) ELSE segs[i]])

\* C18: scanGuidelinesWithMetadata keys each markdown file by its slash-joined
\* path relative to the guidelines root with the extension removed; category
\* is the first segment of the key when the key has more than one segment,
\* and 'general' otherwise.
C18_GuidelineKeyAndCategory ==
  "guidelines" \in scanned =>
    \A k \in DOMAIN guidelinesMetadata.at :
       /\ k = SlashJoinedStem(BelowGuidelines(guidelinesMetadata.at[k].path))
       /\ guidelinesMetadata.at[k].name = k
       /\ guidelinesMetadata.at[k].category =
            IF Len(BelowGuidelines(guidelinesMetadata.at[k].path)) > 1
              THEN BelowGuidelines(guidelinesMetadata.at[k].path)[1]
              ELSE General

\* the same of the files whose names hold no backslash
C18_PlainNames ==
  "guidelines" \in scanned =>
    \A k \in DOMAIN guidelinesMetadata.at :
       (\A i \in 1..Len(guidelinesMetadata.at[k].path) : guidelinesMetadata.at[k].path[i] # "\\")
       => /\ k = SlashJoinedStem(BelowGuidelines(guidelinesMetadata.at[k].path))
          /\ guidelinesMetadata.at[k].category =
               IF Len(Split(k)) > 1 THEN Split(k)[1] ELSE General

\* a nested guideline and one directly under the root, each with its category
C18_NestedAndFlat ==
  /\ "guidelines" \in scanned
  /\ MapHas(guidelinesMetadata, <<"t", "/", "h">>)
  /\ guidelinesMetadata.at[<<"t", "/", "h">>].category = nT
  /\ MapHas(guidelinesMetadata, <<"g">>)
  /\ guidelinesMetadata.at[<<"g">>].category = General

RECURSIVE WalkFrom(_, _, _)
\* the markdown files below dir in the order a depth-first walk by the
\* directories' listings meets them, from the entry i of dir on
WalkFrom(dir, entries, i) ==
  IF i > Len(entries) THEN <<>>
  ELSE IF fs[PathJoin(dir, entries[i])].kind = "dir"
    THEN WalkFrom(PathJoin(dir, entries[i]),
                  readdirSync(fs, PathJoin(dir, entries[i])).value, 1)
           \o WalkFrom(dir, entries, i + 1)
  ELSE IF fs[PathJoin(dir, entries[i])].kind = "file" /\ IsMarkdown(entries[i])
    THEN <<PathJoin(dir, entries[i])>> \o WalkFrom(dir, entries, i + 1)
  ELSE WalkFrom(dir, entries, i + 1)

AgentsRoot == PathJoin(ServerRoot, AGENTS)

\* the readable markdown files under the agents root, in walk order
AgentFiles ==
  SelectSeq(WalkFrom(AgentsRoot, readdirSync(fs, AgentsRoot).value, 1),
            LAMBDA p : fs[p].perm)

\* the places in the walk of the files whose stem is k
PlacesOfStem(walk, k) == {i \in 1..Len(walk) : StripMarkdown(Basename(walk[i])) = k}

\* the last of them
LastOfStem(walk, k) ==
  walk[CHOOSE i \in PlacesOfStem(walk, k) : \A j \in PlacesOfStem(walk, k) : j <= i]

\* the map m holds one entry per stem of the walk, each that of the stem's
\* last file
OnePerStem(m, walk) ==
  /\ DOMAIN m.at = {StripMarkdown(Basename(walk[i])) : i \in 1..Len(walk)}
  /\ \A k \in DOMAIN m.at :
       m.at[k] = AgentMetadata(k, LastOfStem(walk, k),
                               extractMetadata(fs[LastOfStem(walk, k)].content))

\* C19: scanAgentsWithMetadata returns exactly one entry per distinct
\* filename stem among the files, at any depth under the agents root, whose
\* name ends in '.md' whatever its case; other files have no entry, and of
\* several files with one stem the entry is that of the one visited last.
C19_OneEntryPerStem ==
  "agents" \in scanned => OnePerStem(agentsMetadata, AgentFiles)

\* the same where every markdown file under the agents root can be read
C19_WhenAllReadable ==
  ( /\ "agents" \in scanned
    /\ \A p \in DOMAIN fs :
         (StartsWith(p, AgentsRoot) /\ fs[p].kind = "file") => fs[p].perm )
  => OnePerStem(agentsMetadata, AgentFiles)

\* two files share the stem a; the entry is that of the one in the
\* subdirectory, which the walk meets last
C19_SharedStem ==
  /\ "agents" \in scanned
  /\ Cardinality(PlacesOfStem(AgentFiles, <<"a">>)) = 2
  /\ MapHas(agentsMetadata, <<"a">>)
  /\ agentsMetadata.at[<<"a">>].path = AbsPath(<<nR, AGENTS, nS, nAmd>>)
  /\ Len(agentsMetadata.order) = 3

\* the root subdirectory of a kind is missing or cannot be listed
NoListing(kind) == ~TargetIs(PathJoin(ServerRoot, kind), "dir")

\* C20: each of the three scans returns an empty map, and throws nothing,
\* when the root subdirectory of its kind does not exist or cannot be listed.
C20_MissingRootGivesEmptyMap ==
  /\ ("agents" \in scanned /\ NoListing(AGENTS)) => agentsMetadata = EmptyMap
  /\ ("guidelines" \in scanned /\ NoListing(GUIDELINES)) => guidelinesMetadata = EmptyMap
  /\ ("frameworks" \in scanned /\ NoListing(FRAMEWORKS)) => frameworksMetadata = EmptyMap
  /\ last.op \in {"scanAgents", "scanGuidelines", "scanFrameworks"} => last.ok

\* the agents directory is not there: its scan has returned the empty map,
\* the scan of the guidelines its entries
C20_Witness ==
  /\ AgentsRoot \notin DOMAIN fs
  /\ scanned = Kinds
  /\ agentsMetadata = EmptyMap
  /\ guidelinesMetadata # EmptyMap

\* a kind's directory is there and cannot be listed, and its scan has returned
C20_Unlistable ==
  /\ scanned = Kinds
  /\ \E k \in {AGENTS, GUIDELINES, FRAMEWORKS} :
        /\ PathJoin(ServerRoot, k) \in DOMAIN fs
        /\ NoListing(k)

----------------------------------------------------------------------------
(* Claims about the validator singleton, checked under SpecCtor *)

\* what each call of the two functions answers, given the singleton
SingletonAnswers ==
  /\ last.op = "getSecurity" => (~last.ok /\ security = NoValidator)
  /\ last.op = "validatePath" => security # NoValidator
  /\ (last.op = "initializeSecurity" /\ ~last.ok) => security = NoValidator
  /\ (last.op = "initializeSecurity" /\ last.ok) =>
       /\ security # NoValidator
       /\ last.value = security.normalizedRoot

\* C30: after any sequence of initializeSecurity and getSecurity calls at most
\* one validator has been installed: getSecurity throws until an
\* initializeSecurity has succeeded, a failed construction leaves the
\* singleton uninitialized, and every later initializeSecurity returns the
\* first instance with its original root whatever root it is handed.
C30_SingletonInstalledOnce ==
  /\ []SingletonAnswers
  /\ [][security # NoValidator => security' = security]_vars

\* a second initializeSecurity, handed another directory, has returned the
\* validator of the first root
C30_Witness ==
  /\ last.op = "initializeSecurity"
  /\ ~last.flag
  /\ last.ok
  /\ last.arg = AbsPath(<<nRx>>)
  /\ IsDirectoryThere(last.arg)
  /\ security.normalizedRoot = RootPath
  /\ last.value = RootPath

----------------------------------------------------------------------------
(* Claims about paths that are not there, checked under SpecSec *)

\* the logical path of a request, normalized
NormalizedLogicalPath(p) == PathNormalize(LogicalPath(p))

\* the request passes the denylist and the containment check, and nothing is
\* at its logical path
PassesAndMissing(p) ==
  /\ ~containsDangerousPatterns(p)
  /\ StartsWith(NormalizedLogicalPath(p), security.normalizedRoot)
  /\ ~existsSync(fs, NormalizedLogicalPath(p))

\* C27: when the requested path passes the lexical denylist and the logical
\* containment check and its target does not exist, validatePath throws
\* nothing and returns the normalized logical path, the root joined with the
\* request.
C27_MissingTargetReturnsLogicalPath ==
  (last.op = "validatePath" /\ PassesAndMissing(last.arg)) =>
    /\ last.ok
    /\ last.value = NormalizedLogicalPath(last.arg)
    /\ (~StartsWith(last.arg, <<"/">>) =>
          last.value = PathJoin(security.normalizedRoot, last.arg))

\* agents/p is not in the tree: the answer is /r/agents/p
C27_Witness ==
  /\ last.op = "validatePath"
  /\ last.arg = AGENTS \o <<"/">> \o nP
  /\ PassesAndMissing(last.arg)
  /\ last.ok
  /\ last.value = AbsPath(<<nR, AGENTS, nP>>)

----------------------------------------------------------------------------
(* Claims about loads of keys that are not there, checked under Spec *)

\* the text of the 'not found' message of each load
NotFoundText(op) ==
  IF op = "loadAgent" THEN MsgAgentNotFound
  ELSE IF op = "loadGuideline" THEN MsgGuidelineNotFound
  ELSE MsgFrameworkNotFound

\* C21: loadAgent, loadGuideline and loadFramework, called with a key that
\* is not in the kind's map, throw a 'not found' error whose message holds
\* every key of that map, and make no filesystem access.
C21_AbsentKeyNamesAllKeys ==
  (last.op \in LoadOps /\ ~MapHas(MapOf(last.op), last.arg)) =>
    /\ ~last.ok
    /\ last.value = <<>>
    /\ last.ops = <<>>
    /\ StartsWith(last.msg, NotFoundText(last.op) \o last.arg)
    /\ \A k \in DOMAIN MapOf(last.op).at : Places(last.msg, k) # {}

\* a load of a key that is not among the three of the agents map
C21_Witness ==
  /\ last.op = "loadAgent"
  /\ last.arg = MissingKey
  /\ Len(agentsMetadata.order) = 3
  /\ ~last.ok
  /\ Places(last.msg, <<"c", ".", ".", "d">>) # {}

----------------------------------------------------------------------------
(* AiContextMCPServer: tool names *)

\* ToolPrefixes
AGENT == <<"l", "o", "a", "d", "_">>
GUIDELINE == <<"l", "o", "a", "d", "_", "g", "u", "i", "d", "e", "l", "i", "n", "e", "_">>
FRAMEWORK == <<"l", "o", "a", "d", "_", "f", "r", "a", "m", "e", "w", "o", "r", "k", "_">>
\* StaticToolNames
LIST_ALL_RESOURCES == <<"list_all_resources">>
LOAD_MULTIPLE_RESOURCES == <<"load_multiple_resources">>

AgentSuffix == <<"_", "a", "g", "e", "n", "t">>

\* s.replace(/[...]/g, to) for a class of characters
ReplaceChars(s, class, to) == [i \in 1..Len(s) |-> IF s[i] \in class THEN to ELSE s[i]]

\* s without its last n characters
DropLast(s, n) == SubSeq(s, 1, Len(s) - n)

GuidelineWord == <<"g", "u", "i", "d", "e", "l", "i", "n">>

\* s.replace(/_guidelines?$/, '')
StripGuidelinesSuffix(s) ==
  IF EndsWith(s, <<"_">> \o GuidelineWord \o <<"e", "s">>) THEN DropLast(s, 11)
  ELSE IF EndsWith(s, <<"_">> \o GuidelineWord \o <<"e">>) THEN DropLast(s, 10)
  ELSE s

\* the suffix is there after an underscore or a hyphen
EndsWithSeparated(s, suffix) ==
  /\ EndsWith(s, suffix)
  /\ Len(s) > Len(suffix)
  /\ s[Len(s) - Len(suffix)] \in {"_", "-"}

\* s.replace(/[_-]guideline?s?$/, '')
StripGuidelineWord(s) ==
  IF EndsWithSeparated(s, GuidelineWord \o <<"e", "s">>) THEN DropLast(s, 11)
  ELSE IF EndsWithSeparated(s, GuidelineWord \o <<"e">>) THEN DropLast(s, 10)
  ELSE IF EndsWithSeparated(s, GuidelineWord \o <<"s">>) THEN DropLast(s, 10)
  ELSE IF EndsWithSeparated(s, GuidelineWord) THEN DropLast(s, 9)
  ELSE s

\* a name longer than this takes its parent folder's name before it
LongName == 20
\* and is cut to this length
ShortNameCap == 30

\* shortName of generateDynamicTools, from the parts of the key and lastName
ShortName(pathParts, lastName) ==
  IF Len(lastName) > LongName /\ Len(pathParts) > 1
    THEN SubSeq(pathParts[Len(pathParts) - 1] \o <<"_">> \o lastName, 1,
                IF Len(pathParts[Len(pathParts) - 1]) + 1 + Len(lastName) < ShortNameCap
                  THEN Len(pathParts[Len(pathParts) - 1]) + 1 + Len(lastName)
                  ELSE ShortNameCap)
    ELSE lastName

AgentToolName(agentName) == AGENT \o ReplaceChars(agentName, {"-"}, "_")

GuidelineToolName(guidelinePath) ==
  GUIDELINE \o
    ReplaceChars(
      ShortName(Split(guidelinePath),
                StripGuidelineWord(StripGuidelinesSuffix(
                  Split(guidelinePath)[Len(Split(guidelinePath))]))),
      {"/", "-"}, "_")

FrameworkToolName(frameworkName) == FRAMEWORK \o ReplaceChars(frameworkName, {"-"}, "_")

\* the description of a guideline's tool
GuidelineDescription(guidelinePath, metadata) ==
  <<"Category: ">> \o metadata.category \o <<"LF", "Full Path: ">> \o guidelinePath
    \o <<"LF", "LF">> \o metadata.description

DynamicTool(name, description) == [name |-> name, description |-> description]

\* dynamicTools and the three mappings, as generateDynamicTools fills them
NoTools == [dynamicTools |-> <<>>, agentToolMapping |-> EmptyMap,
            guidelineToolMapping |-> EmptyMap, frameworkToolMapping |-> EmptyMap]

RECURSIVE agentTools(_, _, _)
\* the loop over agentsMetadata from its entry i on
agentTools(map, i, acc) ==
  IF i > Len(map.order) THEN acc
  ELSE agentTools(map, i + 1,
         [acc EXCEPT !.agentToolMapping = MapSet(@, AgentToolName(map.order[i]), map.order[i]),
                     !.dynamicTools = Append(@, DynamicTool(AgentToolName(map.order[i]),
                                                            map.at[map.order[i]].description))])

RECURSIVE guidelineTools(_, _, _)
guidelineTools(map, i, acc) ==
  IF i > Len(map.order) THEN acc
  ELSE guidelineTools(map, i + 1,
         [acc EXCEPT !.guidelineToolMapping =
                        MapSet(@, GuidelineToolName(map.order[i]), map.order[i]),
                     !.dynamicTools =
                        Append(@, DynamicTool(GuidelineToolName(map.order[i]),
                                    GuidelineDescription(map.order[i], map.at[map.order[i]])))])

RECURSIVE frameworkTools(_, _, _)
frameworkTools(map, i, acc) ==
  IF i > Len(map.order) THEN acc
  ELSE frameworkTools(map, i + 1,
         [acc EXCEPT !.frameworkToolMapping =
                        MapSet(@, FrameworkToolName(map.order[i]), map.order[i]),
                     !.dynamicTools = Append(@, DynamicTool(FrameworkToolName(map.order[i]),
                                                            map.at[map.order[i]].description))])

generateDynamicTools(agents, guidelines, frameworks, acc) ==
  frameworkTools(frameworks, 1, guidelineTools(guidelines, 1, agentTools(agents, 1, acc)))

\* getStaticTools(): the names matter here
getStaticTools ==
  << DynamicTool(LIST_ALL_RESOURCES, <<"Lists all available agents, guidelines, and frameworks">>),
     DynamicTool(LOAD_MULTIPLE_RESOURCES, <<"Load multiple resources">>) >>

----------------------------------------------------------------------------
(* AiContextMCPServer: the handlers *)

RECURSIVE SplitColonFrom(_, _, _)
SplitColonFrom(s, i, cur) ==
  IF i > Len(s) THEN <<cur>>
  ELSE IF s[i] = ":" THEN <<cur>> \o SplitColonFrom(s, i + 1, <<>>)
  ELSE SplitColonFrom(s, i + 1, Append(cur, s[i]))

\* resource.split(':')
SplitColon(s) == SplitColonFrom(s, 1, <<>>)

\* the value of a name that was not given, and how a template shows it
Undefined == <<"undefined">>

\* const [type, name] = resource.split(':')
TypeOf(resource) == SplitColon(resource)[1]
NameOf(resource) ==
  IF Len(SplitColon(resource)) > 1 THEN SplitColon(resource)[2] ELSE Undefined

\* the Loader's three maps, as its constructor received them
NoLoader == [agents |-> EmptyMap, guidelines |-> EmptyMap, frameworks |-> EmptyMap]

\* what the call handler hands back: a text, or the message of what it threw
Responded(text, ops) == [threw |-> FALSE, text |-> text, ops |-> ops]
Thrown(message, ops) == [threw |-> TRUE, text |-> message, ops |-> ops]

\* formatResponse(content) of a load's outcome; a thrown error stays thrown
formatLoad(r) == IF r.ok THEN Responded(r.value, r.ops) ELSE Thrown(r.msg, r.ops)

MsgNoAgents == <<"' not found. No agents are loaded. ">>
MsgAvailableAgents == <<"' not found. Available agents: ">>

\* AiContextMCPServer.loadAgent
serverLoadAgent(srv, agents, sv, f, agentName) ==
  IF ~MapHas(agents, agentName)
    THEN IF MapKeys(agents) = <<>>
           THEN Thrown(MsgAgentNotFound \o agentName \o MsgNoAgents, <<>>)
           ELSE Thrown(MsgAgentNotFound \o agentName \o MsgAvailableAgents
                         \o JoinWith(MapKeys(agents), <<",", " ">>), <<>>)
  ELSE formatLoad(loadAgent(srv.loader.agents, sv, f, agentName))

\* AiContextMCPServer.loadGuideline and loadFramework
serverLoadGuideline(srv, sv, f, guidelinePath) ==
  formatLoad(loadGuideline(srv.loader.guidelines, sv, f, guidelinePath))

serverLoadFramework(srv, sv, f, frameworkName) ==
  formatLoad(loadFramework(srv.loader.frameworks, sv, f, frameworkName))

SectionBreak == <<"LF", "LF", "-", "-", "-", "LF", "LF">>

\* a section of loadMultipleResources for a resource of a known type
loadedSection(heading, resource, name, r) ==
  IF r.ok THEN heading \o name \o <<"LF", "LF">> \o r.value
  ELSE <<"## Error loading ">> \o resource \o <<":", " ">> \o r.msg

\* the body of the loop of loadMultipleResources for one resource
sectionOf(srv, sv, f, resource) ==
  IF TypeOf(resource) = <<"a", "g", "e", "n", "t">>
    THEN loadedSection(<<"## Agent: ">>, resource, NameOf(resource),
                       loadAgent(srv.loader.agents, sv, f, NameOf(resource)))
  ELSE IF TypeOf(resource) = <<"g", "u", "i", "d", "e", "l", "i", "n", "e">>
    THEN loadedSection(<<"## Guideline: ">>, resource, NameOf(resource),
                       loadGuideline(srv.loader.guidelines, sv, f, NameOf(resource)))
  ELSE IF TypeOf(resource) = <<"f", "r", "a", "m", "e", "w", "o", "r", "k">>
    THEN loadedSection(<<"## Framework: ">>, resource, NameOf(resource),
                       loadFramework(srv.loader.frameworks, sv, f, NameOf(resource)))
  ELSE <<"## Unknown resource type: ">> \o resource

\* loadMultipleResources that gives up at the first resource that fails
loadMultipleResources_StopAtError(srv, sv, f, resources) ==
  IF \E i \in 1..Len(resources) :
        StartsWith(sectionOf(srv, sv, f, resources[i]), <<"## Error loading ">>)
    THEN Thrown(<<"load failed">>, <<>>)
    ELSE Responded(JoinWith([i \in 1..Len(resources) |-> sectionOf(srv, sv, f, resources[i])],
                            SectionBreak), <<>>)

\* AiContextMCPServer.loadMultipleResources
loadMultipleResources(srv, sv, f, resources) ==
  Responded(JoinWith([i \in 1..Len(resources) |-> sectionOf(srv, sv, f, resources[i])],
                     SectionBreak), <<>>)

\* the entries listAllResources shows of a map: each key and the source of
\* its metadata
listedOf(map) ==
  JoinWith([i \in 1..Len(map.order) |->
              map.order[i] \o <<":">> \o <<map.at[map.order[i]].metadataSource>>], <<",">>)

\* AiContextMCPServer.listAllResources
listAllResources(agents, guidelines, frameworks) ==
  Responded(<<"{agents:[">> \o listedOf(agents) \o <<"],guidelines:[">> \o listedOf(guidelines)
              \o <<"],frameworks:[">> \o listedOf(frameworks) \o <<"]}">>, <<>>)

MsgAgentTool == <<"Agent tool '">>
MsgGuidelineTool == <<"Guideline tool '">>
MsgFrameworkTool == <<"Framework tool '">>
MsgNotInMapping == <<"' not found in mapping">>
MsgUnknownTool == <<"Unknown tool: ">>

\* mapping.get(name) is undefined or the empty string
Falsy(mapping, name) == ~MapHas(mapping, name) \/ mapping.at[name] = <<>>

\* the body of the try block of the CallToolRequestSchema handler
callTool(srv, agents, guidelines, frameworks, sv, f, name, resources) ==
  IF name = LIST_ALL_RESOURCES THEN listAllResources(agents, guidelines, frameworks)
  ELSE IF name = LOAD_MULTIPLE_RESOURCES THEN loadMultipleResources(srv, sv, f, resources)
  ELSE IF StartsWith(name, AGENT) /\ EndsWith(name, AgentSuffix)
    THEN IF Falsy(srv.agentToolMapping, name)
           THEN Thrown(MsgAgentTool \o name \o MsgNotInMapping
                         \o <<". Available mappings: ">>
                         \o JoinWith(MapKeys(srv.agentToolMapping), <<",", " ">>), <<>>)
           ELSE serverLoadAgent(srv, agents, sv, f, srv.agentToolMapping.at[name])
  ELSE IF StartsWith(name, GUIDELINE)
    THEN IF Falsy(srv.guidelineToolMapping, name)
           THEN Thrown(MsgGuidelineTool \o name \o MsgNotInMapping, <<>>)
           ELSE serverLoadGuideline(srv, sv, f, srv.guidelineToolMapping.at[name])
  ELSE IF StartsWith(name, FRAMEWORK)
    THEN IF Falsy(srv.frameworkToolMapping, name)
           THEN Thrown(MsgFrameworkTool \o name \o MsgNotInMapping, <<>>)
           ELSE serverLoadFramework(srv, sv, f, srv.frameworkToolMapping.at[name])
  ELSE Thrown(MsgUnknownTool \o name, <<>>)

ErrorPrefix == <<"Error: ">>

\* the handler that lets what its body throws go on to the caller
handled_NoCatch(r) == r

\* the catch block of the handler: formatError(error.message)
handled(r) == IF r.threw THEN Responded(ErrorPrefix \o r.text, r.ops) ELSE r

----------------------------------------------------------------------------
(* The server from start() on: the specification SpecServer *)

nPmd == <<"p", ".", "m", "d">>
nQAgentMd == <<"q", "-", "a", "g", "e", "n", "t", ".", "m", "d">>
nQAgentUnderMd == <<"q", "_", "a", "g", "e", "n", "t", ".", "m", "d">>
nCdAgentMd == <<"c", ".", ".", "d", "-", "a", "g", "e", "n", "t", ".", "m", "d">>
nApiMd == <<"a", "p", "i", "_", "g", "u", "i", "d", "e", "l", "i", "n", "e", "s", ".", "m", "d">>
nU == <<"u">>
nLongMd == [i \in 1..(LongName + 1) |-> "n"] \o MARKDOWN
nMv == <<"m", "-", "v">>
nMvUnder == <<"m", "_", "v">>
nReadmeUpper == readmeFiles[1]

\* a context root with resources of the three kinds
PlainTree ==
  MakeFs({
    <<AbsPath(<<>>), Dir(TRUE, <<nR, nW>>)>>,
    <<AbsPath(<<nW>>), Dir(TRUE, <<>>)>>,
    <<AbsPath(<<nR>>), Dir(TRUE, <<AGENTS, FRAMEWORKS, GUIDELINES>>)>>,
    <<AbsPath(<<nR, AGENTS>>), Dir(TRUE, <<nCdAgentMd, nPmd, nQAgentMd>>)>>,
    <<AbsPath(<<nR, AGENTS, nCdAgentMd>>), File(TRUE, <<"C">>)>>,
    <<AbsPath(<<nR, AGENTS, nPmd>>), File(TRUE, <<"P">>)>>,
    <<AbsPath(<<nR, AGENTS, nQAgentMd>>), File(TRUE, <<"Q">>)>>,
    <<AbsPath(<<nR, GUIDELINES>>), Dir(TRUE, <<nApiMd, nGmd, nT, nU>>)>>,
    <<AbsPath(<<nR, GUIDELINES, nApiMd>>), File(TRUE, <<"A">>)>>,
    <<AbsPath(<<nR, GUIDELINES, nGmd>>), File(TRUE, <<"G">>)>>,
    <<AbsPath(<<nR, GUIDELINES, nT>>), Dir(TRUE, <<nHmd>>)>>,
    <<AbsPath(<<nR, GUIDELINES, nT, nHmd>>), File(TRUE, <<"H">>)>>,
    <<AbsPath(<<nR, GUIDELINES, nU>>), Dir(TRUE, <<nLongMd>>)>>,
    <<AbsPath(<<nR, GUIDELINES, nU, nLongMd>>), File(TRUE, <<"L">>)>>,
    <<AbsPath(<<nR, FRAMEWORKS>>), Dir(TRUE, <<nF>>)>>,
    <<AbsPath(<<nR, FRAMEWORKS, nF>>), Dir(TRUE, <<nReadmeUpper>>)>>,
    <<AbsPath(<<nR, FRAMEWORKS, nF, nReadmeUpper>>), File(TRUE, <<"F">>)>> })

\* a context root with names that differ only in a hyphen, an underscore or
\* the folder they are in
AlikeTree ==
  MakeFs({
    <<AbsPath(<<>>), Dir(TRUE, <<nR, nW>>)>>,
    <<AbsPath(<<nW>>), Dir(TRUE, <<>>)>>,
    <<AbsPath(<<nR>>), Dir(TRUE, <<AGENTS, FRAMEWORKS, GUIDELINES>>)>>,
    <<AbsPath(<<nR, AGENTS>>), Dir(TRUE, <<nPmd, nQAgentMd, nQAgentUnderMd>>)>>,
    <<AbsPath(<<nR, AGENTS, nPmd>>), File(TRUE, <<"P">>)>>,
    <<AbsPath(<<nR, AGENTS, nQAgentMd>>), File(TRUE, <<"Q">>)>>,
    <<AbsPath(<<nR, AGENTS, nQAgentUnderMd>>), File(TRUE, <<"Q", "2">>)>>,
    <<AbsPath(<<nR, GUIDELINES>>), Dir(TRUE, <<nGmd, nT>>)>>,
    <<AbsPath(<<nR, GUIDELINES, nGmd>>), File(TRUE, <<"G">>)>>,
    <<AbsPath(<<nR, GUIDELINES, nT>>), Dir(TRUE, <<nGmd>>)>>,
    <<AbsPath(<<nR, GUIDELINES, nT, nGmd>>), File(TRUE, <<"T", "G">>)>>,
    <<AbsPath(<<nR, FRAMEWORKS>>), Dir(TRUE, <<nMv, nMvUnder>>)>>,
    <<AbsPath(<<nR, FRAMEWORKS, nMv>>), Dir(TRUE, <<nReadmeUpper>>)>>,
    <<AbsPath(<<nR, FRAMEWORKS, nMv, nReadmeUpper>>), File(TRUE, <<"M">>)>>,
    <<AbsPath(<<nR, FRAMEWORKS, nMvUnder>>), Dir(TRUE, <<nReadmeUpper>>)>>,
    <<AbsPath(<<nR, FRAMEWORKS, nMvUnder, nReadmeUpper>>), File(TRUE, <<"M", "2">>)>> })

\* every kind asked for
AllEnabled == [agents |-> "unset", guidelines |-> "true", frameworks |-> "true"]

\* AI_CONTEXT_LOAD_AGENTS, AI_CONTEXT_LOAD_GUIDELINES, AI_CONTEXT_LOAD_FRAMEWORKS
\* in the process's environment: none set, one kind switched off, all on
Envs ==
  { [agents |-> "unset", guidelines |-> "unset", frameworks |-> "unset"],
    [agents |-> "false", guidelines |-> "unset", frameworks |-> "unset"],
    [agents |-> "unset", guidelines |-> "false", frameworks |-> "true"],
    [agents |-> "unset", guidelines |-> "true", frameworks |-> "false"],
    AllEnabled }

\* const loadAgents = true
loadAgents(env) == TRUE
\* process.env.AI_CONTEXT_LOAD_GUIDELINES === 'true'
loadGuidelines(env) == env.guidelines = "true"
\* process.env.AI_CONTEXT_LOAD_FRAMEWORKS === 'true'
loadFrameworks(env) == env.frameworks = "true"

InitServer ==
  /\ fs \in {PlainTree, AlikeTree}
  /\ req = <<>>
  /\ security = [normalizedRoot |-> SecurityValidator(fs, RootPath).normalizedRoot]
  /\ last = NoOp
  /\ agentsMetadata = EmptyMap
  /\ guidelinesMetadata = EmptyMap
  /\ frameworksMetadata = EmptyMap
  /\ scanned = {}
  /\ scanLog = <<>>
  /\ edits = 0
  /\ \E env \in Envs :
       /\ fs = AlikeTree <=> env = AllEnabled
       /\ server = [pc |-> "constructed", env |-> env, loader |-> NoLoader,
                    dynamicTools |-> <<>>, agentToolMapping |-> EmptyMap,
                    guidelineToolMapping |-> EmptyMap, frameworkToolMapping |-> EmptyMap,
                    handlers |-> FALSE, connected |-> FALSE]

\* one assignment of initialize(): the scan where the kind is enabled, a new
\* Map where it is not
Assigned(kind, enabled, pc, log) ==
  /\ scanLog' = IF enabled THEN scanLog \o log ELSE scanLog
  /\ scanned' = IF enabled THEN scanned \cup {kind} ELSE scanned
  /\ server' = [server EXCEPT !.pc = pc]
  /\ last' = [NoOp EXCEPT !.op = "initialize"]
  /\ UNCHANGED <<fs, security, req, edits>>

InitializeAgents ==
  /\ server.pc = "constructed"
  /\ agentsMetadata' = IF loadAgents(server.env)
                         THEN scanAgentsWithMetadata(ServerRoot, fs).map ELSE EmptyMap
  /\ Assigned("agents", loadAgents(server.env), "agents",
              scanAgentsWithMetadata(ServerRoot, fs).log)
  /\ UNCHANGED <<guidelinesMetadata, frameworksMetadata>>

InitializeGuidelines ==
  /\ server.pc = "agents"
  /\ guidelinesMetadata' = IF loadGuidelines(server.env)
                             THEN scanGuidelinesWithMetadata(ServerRoot, fs).map ELSE EmptyMap
  /\ Assigned("guidelines", loadGuidelines(server.env), "guidelines",
              scanGuidelinesWithMetadata(ServerRoot, fs).log)
  /\ UNCHANGED <<agentsMetadata, frameworksMetadata>>

InitializeFrameworks ==
  /\ server.pc = "guidelines"
  /\ frameworksMetadata' = IF loadFrameworks(server.env)
                             THEN scanFrameworksWithMetadata(ServerRoot, fs).map ELSE EmptyMap
  /\ Assigned("frameworks", loadFrameworks(server.env), "frameworks",
              scanFrameworksWithMetadata(ServerRoot, fs).log)
  /\ UNCHANGED <<agentsMetadata, guidelinesMetadata>>

\* a step of initialize() or start() that changes the server only
Stepped(pc, srv) ==
  /\ server' = [srv EXCEPT !.pc = pc]
  /\ last' = [NoOp EXCEPT !.op = "initialize"]
  /\ UNCHANGED <<fs, security, req, agentsMetadata, guidelinesMetadata, frameworksMetadata,
                 scanned, scanLog, edits>>

\* the Loader constructed in the constructor, from the maps as they were then
NewLoader_InConstructor ==
  /\ server.pc = "frameworks"
  /\ Stepped("loader", [server EXCEPT !.loader = NoLoader])

\* this.loader = new Loader(agentsMetadata, guidelinesMetadata, frameworksMetadata, security)
NewLoader ==
  /\ server.pc = "frameworks"
  /\ Stepped("loader", [server EXCEPT !.loader = [agents |-> agentsMetadata,
                                                   guidelines |-> guidelinesMetadata,
                                                   frameworks |-> frameworksMetadata]])

\* the tools and mappings of srv replaced by those of t
WithTools(srv, t) ==
  [srv EXCEPT !.dynamicTools = t.dynamicTools, !.agentToolMapping = t.agentToolMapping,
              !.guidelineToolMapping = t.guidelineToolMapping,
              !.frameworkToolMapping = t.frameworkToolMapping]

GenerateDynamicTools ==
  /\ server.pc = "loader"
  /\ Stepped("tools", WithTools(server,
       generateDynamicTools(agentsMetadata, guidelinesMetadata, frameworksMetadata, NoTools)))

\* setupHandlers(): the request handlers are registered
SetupHandlers ==
  /\ server.pc = "tools"
  /\ Stepped("handlers", [server EXCEPT !.handlers = TRUE])

\* await this.server.connect(transport): requests come in from here on
Connect ==
  /\ server.pc = "handlers"
  /\ Stepped("ready", [server EXCEPT !.connected = TRUE])

\* a request is served once the transport is connected and its handler is there
Serving == server.pc # "none" /\ server.connected /\ server.handlers

\* the ListToolsRequestSchema handler
ListTools ==
  /\ Serving
  /\ Answered("listTools", <<>>, TRUE, FALSE, server.dynamicTools \o getStaticTools, <<>>, <<>>)

\* names no tool has
UnknownToolNames ==
  { <<"z", "z">>, AGENT \o <<"z">> \o AgentSuffix, GUIDELINE \o <<"z">> }

\* the names a client calls: those ListTools shows, and some it does not
NamesToCall ==
  {server.dynamicTools[i].name : i \in 1..Len(server.dynamicTools)}
    \cup {getStaticTools[i].name : i \in 1..Len(getStaticTools)}
    \cup UnknownToolNames

\* the resource strings a client hands to load_multiple_resources
ResourceStrings ==
  { <<"a", "g", "e", "n", "t", ":", "p">>,
    <<"g", "u", "i", "d", "e", "l", "i", "n", "e">>,
    <<"t", "o", "o", "l", ":", "p">> }

\* lists of them, none asked twice
ResourceLists ==
  UNION {{l \in [1..n -> ResourceStrings] : \A i, j \in 1..n : l[i] = l[j] => i = j} :
           n \in 0..MaxResources}

\* the handler's answer is what the client receives; `ok` tells that the
\* handler returned, `flag` that its try block threw
Served(name, resources, inner) ==
  Answered("callTool", [name |-> name, resources |-> resources], ~handled(inner).threw,
           inner.threw, handled(inner).text, <<>>, handled(inner).ops)

\* a handler that forgets the guideline tools whenever a call fails
CallTool_ForgetsOnFailure ==
  /\ Serving
  /\ \E name \in NamesToCall :
       \E resources \in (IF name = LOAD_MULTIPLE_RESOURCES THEN ResourceLists ELSE {<<>>}) :
          /\ last' = [NoOp EXCEPT !.op = "callTool",
                        !.arg = [name |-> name, resources |-> resources],
                        !.flag = callTool(server, agentsMetadata, guidelinesMetadata,
                                          frameworksMetadata, security, fs, name, resources).threw]
          /\ server' = IF last'.flag THEN [server EXCEPT !.guidelineToolMapping = EmptyMap]
                       ELSE server
          /\ UNCHANGED <<fs, security, req, agentsMetadata, guidelinesMetadata,
                         frameworksMetadata, scanned, scanLog, edits>>

\* the CallToolRequestSchema handler
CallTool ==
  /\ Serving
  /\ \E name \in NamesToCall :
       \E resources \in (IF name = LOAD_MULTIPLE_RESOURCES THEN ResourceLists ELSE {<<>>}) :
          Served(name, resources,
                 callTool(server, agentsMetadata, guidelinesMetadata, frameworksMetadata,
                          security, fs, name, resources))

NextServer ==
  \/ InitializeAgents
  \/ InitializeGuidelines
  \/ InitializeFrameworks
  \/ NewLoader
  \/ GenerateDynamicTools
  \/ SetupHandlers
  \/ Connect
  \/ ListTools
  \/ CallTool
  \/ DeleteFile

SpecServer == InitServer /\ [][NextServer]_vars

----------------------------------------------------------------------------
(* Claims about the server, checked under SpecServer *)

\* the kinds initialize() scans under the environment env
EnabledKinds(env) ==
  {k \in Kinds : \/ k = "agents" /\ loadAgents(env)
                 \/ k = "guidelines" /\ loadGuidelines(env)
                 \/ k = "frameworks" /\ loadFrameworks(env)}

\* the Loader holds the three maps of the server, every enabled scan done
LoaderPopulated ==
  /\ EnabledKinds(server.env) \subseteq scanned
  /\ server.loader = [agents |-> agentsMetadata, guidelines |-> guidelinesMetadata,
                      frameworks |-> frameworksMetadata]
  /\ "agents" \in scanned => agentsMetadata # EmptyMap

\* C22: the server registers its request handlers and connects the transport
\* only after every enabled scan has completed and the Loader has been
\* constructed from the populated maps; no tool call is served against empty
\* or partially scanned maps.
C22_ServedOnlyAfterScans ==
  /\ server.handlers => LoaderPopulated
  /\ server.connected => server.handlers
  /\ last.op \in {"listTools", "callTool"} => (server.connected /\ LoaderPopulated)

\* a tool call has been served, the three kinds scanned before it
C22_Witness ==
  /\ last.op = "callTool"
  /\ scanned = Kinds
  /\ server.loader.guidelines # EmptyMap
  /\ LoaderPopulated

\* the tool a call named is one of a mapping of the server
CalledMappedTool ==
  /\ last.op = "callTool"
  /\ \/ MapHas(server.agentToolMapping, last.arg.name)
     \/ MapHas(server.guidelineToolMapping, last.arg.name)
     \/ MapHas(server.frameworkToolMapping, last.arg.name)

\* C23: a load, whether it succeeds or fails and in any interleaving with
\* other loads and tool calls, leaves the three metadata maps, the tool
\* mappings and the validator's root unchanged.
C23_LoadsChangeNothing ==
  [][last'.op = "callTool" =>
       /\ UNCHANGED <<agentsMetadata, guidelinesMetadata, frameworksMetadata>>
       /\ security'.normalizedRoot = security.normalizedRoot
       /\ server'.loader = server.loader
       /\ server'.dynamicTools = server.dynamicTools
       /\ server'.agentToolMapping = server.agentToolMapping
       /\ server'.guidelineToolMapping = server.guidelineToolMapping
       /\ server'.frameworkToolMapping = server.frameworkToolMapping]_vars

\* a load of a listed tool has failed on a server that has guideline tools
C23_Witness ==
  /\ CalledMappedTool
  /\ last.flag
  /\ MapKeys(server.guidelineToolMapping) # <<>>
  /\ MapKeys(guidelinesMetadata) # <<>>

\* the failures of handling the call last served, told from the request and
\* the state alone: a name no branch of the handler takes, a name its branch
\* does not find in the mapping, a key the map does not hold, and a file the
\* validator refuses or cannot read
CalledTool == last.arg.name

NoBranchTakes(name) ==
  /\ name \notin {LIST_ALL_RESOURCES, LOAD_MULTIPLE_RESOURCES}
  /\ ~(StartsWith(name, AGENT) /\ EndsWith(name, AgentSuffix))
  /\ ~StartsWith(name, GUIDELINE)
  /\ ~StartsWith(name, FRAMEWORK)

MissingFromMapping(name) ==
  \/ /\ StartsWith(name, AGENT) /\ EndsWith(name, AgentSuffix)
     /\ ~MapHas(server.agentToolMapping, name)
  \/ /\ ~(StartsWith(name, AGENT) /\ EndsWith(name, AgentSuffix))
     /\ StartsWith(name, GUIDELINE)
     /\ ~MapHas(server.guidelineToolMapping, name)

\* the file of the resource a mapped tool stands for
FileOfTool(name) ==
  IF MapHas(server.agentToolMapping, name)
    THEN agentsMetadata.at[server.agentToolMapping.at[name]].path
  ELSE IF MapHas(server.guidelineToolMapping, name)
    THEN guidelinesMetadata.at[server.guidelineToolMapping.at[name]].path
  ELSE frameworksMetadata.at[server.frameworkToolMapping.at[name]].path

\* the mapped tool's file is gone, or its path has a pattern the validator
\* refuses
FileUnreadable(name) ==
  \/ FileOfTool(name) \notin DOMAIN fs
  \/ Places(FileOfTool(name), <<".", ".">>) # {}

CallFails ==
  \/ NoBranchTakes(CalledTool)
  \/ MissingFromMapping(CalledTool)
  \/ CalledMappedTool /\ FileUnreadable(CalledTool)

PathsOf(map) == [i \in 1..Len(map.order) |-> map.at[map.order[i]].path]

GeneratedFrom ==
  PathsOf(agentsMetadata) \o PathsOf(guidelinesMetadata) \o PathsOf(frameworksMetadata)

\* the names of the tools a ListTools answer shows
ListedNames(tools) == {tools[i].name : i \in 1..Len(tools)}

\* the places of a ListTools answer whose tool has a name of the prefix
ListedWith(tools, prefix) == {i \in 1..Len(tools) : StartsWith(tools[i].name, prefix)}

\* load_<name>_agent, the name as it is or as the tool names write it
DocumentedAgentTools(k) ==
  {AGENT \o k \o AgentSuffix, AGENT \o ReplaceChars(k, {"-"}, "_") \o AgentSuffix}

\* the ListTools answer shows a tool of the documented form for every scanned
\* resource
ExposesEveryResource(tools) ==
  /\ \A k \in DOMAIN agentsMetadata.at : DocumentedAgentTools(k) \cap ListedNames(tools) # {}
  /\ Cardinality(ListedWith(tools, GUIDELINE)) >= Cardinality(DOMAIN guidelinesMetadata.at)
  /\ Cardinality(ListedWith(tools, FRAMEWORK)) >= Cardinality(DOMAIN frameworksMetadata.at)

\* the call last served named the i-th dynamic tool, and the file that tool
\* was generated from is there to be read
CalledGenerated(i) ==
  /\ last.op = "callTool"
  /\ i \in 1..Len(server.dynamicTools)
  /\ server.dynamicTools[i].name = CalledTool
  /\ GeneratedFrom[i] \in DOMAIN fs
  /\ Places(GeneratedFrom[i], <<".", ".">>) = {}

\* C25: for each scanned agent, guideline and framework, ListTools exposes a
\* dynamic tool (load_<name>_agent, load_guideline_<path>,
\* load_framework_<name>), and calling any dynamic tool returned by ListTools
\* returns the content of exactly the resource that tool was generated from.
C25_DynamicToolsLoadTheirResource ==
  /\ last.op = "listTools" => ExposesEveryResource(last.value)
  /\ \A i \in 1..Len(server.dynamicTools) :
        CalledGenerated(i) =>
          /\ ~last.flag
          /\ last.value = fs[GeneratedFrom[i]].content

\* the tool generated from a guideline or a framework, no other tool of its
\* name, returns the content of that resource
C25_GuidelineAndFrameworkTools ==
  \A i \in 1..Len(server.dynamicTools) :
     ( /\ CalledGenerated(i)
       /\ ~MapHas(server.agentToolMapping, CalledTool)
       /\ ~EndsWith(CalledTool, AgentSuffix)
       /\ \A j \in 1..Len(server.dynamicTools) :
             server.dynamicTools[j].name = CalledTool => j = i )
       => (~last.flag /\ last.value = fs[GeneratedFrom[i]].content)

\* the tool of an agent whose name does not end in -agent or _agent is
\* answered as a tool that does not exist
C25_AgentToolUnknown ==
  ( /\ last.op = "callTool"
    /\ MapHas(server.agentToolMapping, CalledTool)
    /\ ~EndsWith(CalledTool, AgentSuffix) )
    => last.value = ErrorPrefix \o MsgUnknownTool \o CalledTool

\* the tool of the agent p has been called
C25_AgentToolCalled ==
  /\ last.op = "callTool"
  /\ MapHas(server.agentToolMapping, CalledTool)
  /\ server.agentToolMapping.at[CalledTool] = <<"p">>

\* initialize() has made its three assignments of the maps
ScansDecided == server.pc \in {"frameworks", "loader", "tools", "handlers", "ready"}

\* the tools are generated
ToolsGenerated == server.pc \in {"tools", "handlers", "ready"}

\* the prefix of the tools of a kind
PrefixOf(k) == IF k = "agents" THEN AGENT ELSE IF k = "guidelines" THEN GUIDELINE ELSE FRAMEWORK

\* the tools of the kind k among the dynamic tools; an agent tool is one that
\* is neither a guideline's nor a framework's
ToolsOfKind(k) ==
  IF k = "agents"
    THEN ListedWith(server.dynamicTools, AGENT)
           \ (ListedWith(server.dynamicTools, GUIDELINE)
                \cup ListedWith(server.dynamicTools, FRAMEWORK))
    ELSE ListedWith(server.dynamicTools, PrefixOf(k))

\* C26: with none of AI_CONTEXT_LOAD_AGENTS, AI_CONTEXT_LOAD_GUIDELINES and
\* AI_CONTEXT_LOAD_FRAMEWORKS set, all three resource kinds are scanned and
\* exposed as tools; setting a kind's variable to "false" disables that kind
\* and only that kind.
C26_KindsFollowEnvironment ==
  /\ ScansDecided => \A k \in Kinds : (k \in scanned) <=> (server.env[k] # "false")
  /\ ToolsGenerated => \A k \in Kinds : (ToolsOfKind(k) # {}) <=> (server.env[k] # "false")

\* what initialize() does: agents are always scanned, a guideline or a
\* framework only where its variable is "true"
C26_KindsAsCoded ==
  /\ ScansDecided =>
       scanned = {"agents"} \cup {k \in {"guidelines", "frameworks"} : server.env[k] = "true"}
  /\ ToolsGenerated => \A k \in Kinds : (ToolsOfKind(k) # {}) <=> (k \in scanned)

\* a server started with no variable set has generated its tools
C26_NothingSet ==
  /\ ToolsGenerated
  /\ \A k \in Kinds : server.env[k] = "unset"

\* the keys of a map whose tool name, by the naming of its kind, is n
AgentsNamed(n) == {k \in DOMAIN agentsMetadata.at : AgentToolName(k) = n}
GuidelinesNamed(n) == {k \in DOMAIN guidelinesMetadata.at : GuidelineToolName(k) = n}
FrameworksNamed(n) == {k \in DOMAIN frameworksMetadata.at : FrameworkToolName(k) = n}

\* every entry of the mapping refers to the only resource of the name
RefersToOnly(mapping, n, named) ==
  MapHas(mapping, n) => named = {mapping.at[n]}

\* C28: after initialization, no two tools in the ListTools result (dynamic or
\* static) share a name, and every entry of the agent, guideline and framework
\* tool-name mappings refers to the only scanned resource that produced that
\* tool name; distinct resources never collapse onto one tool name.
C28_ToolNamesDistinct ==
  /\ last.op = "listTools" =>
       \A i, j \in 1..Len(last.value) : last.value[i].name = last.value[j].name => i = j
  /\ ToolsGenerated =>
       \A n \in ListedNames(server.dynamicTools) :
          /\ RefersToOnly(server.agentToolMapping, n, AgentsNamed(n))
          /\ RefersToOnly(server.guidelineToolMapping, n, GuidelinesNamed(n))
          /\ RefersToOnly(server.frameworkToolMapping, n, FrameworksNamed(n))

\* every entry of a mapping refers to a scanned resource that produced the
\* name, and every scanned resource has its tool name in the mapping
C28_MappingsReferToProducers ==
  ToolsGenerated =>
    /\ \A n \in DOMAIN server.agentToolMapping.at :
          server.agentToolMapping.at[n] \in AgentsNamed(n)
    /\ \A n \in DOMAIN server.guidelineToolMapping.at :
          server.guidelineToolMapping.at[n] \in GuidelinesNamed(n)
    /\ \A n \in DOMAIN server.frameworkToolMapping.at :
          server.frameworkToolMapping.at[n] \in FrameworksNamed(n)
    /\ Len(server.dynamicTools) = Cardinality(DOMAIN agentsMetadata.at)
                                     + Cardinality(DOMAIN guidelinesMetadata.at)
                                     + Cardinality(DOMAIN frameworksMetadata.at)

\* the tools of a root with names that differ in a hyphen only are listed
C28_AlikeListed ==
  /\ last.op = "listTools"
  /\ Cardinality(AgentsNamed(AGENT \o <<"q">> \o AgentSuffix)) = 2

\* the outcome of loading what a resource string of a known type names,
\* straight from the Loader's map and the files
LoadedBy(resource) ==
  IF TypeOf(resource) = <<"a", "g", "e", "n", "t">>
    THEN loadAgent(server.loader.agents, security, fs, NameOf(resource))
  ELSE IF TypeOf(resource) = <<"g", "u", "i", "d", "e", "l", "i", "n", "e">>
    THEN loadGuideline(server.loader.guidelines, security, fs, NameOf(resource))
  ELSE loadFramework(server.loader.frameworks, security, fs, NameOf(resource))

KnownTypes ==
  { <<"a", "g", "e", "n", "t">>, <<"g", "u", "i", "d", "e", "l", "i", "n", "e">>,
    <<"f", "r", "a", "m", "e", "w", "o", "r", "k">> }

\* the section the answer owes a resource: that of an unknown type, of a
\* failed load, or of a load
IsSectionOf(section, resource) ==
  IF TypeOf(resource) \notin KnownTypes
    THEN section = <<"## Unknown resource type: ">> \o resource
  ELSE IF ~LoadedBy(resource).ok
    THEN StartsWith(section, <<"## Error loading ">> \o resource)
  ELSE /\ section[1] \in {"## Agent: ", "## Guideline: ", "## Framework: "}
       /\ EndsWith(section, LoadedBy(resource).value)

\* the ways of cutting a text into n sections at section breaks
RECURSIVE SectionsMatch(_, _, _)
SectionsMatch(text, resources, i) ==
  IF i = Len(resources) THEN IsSectionOf(text, resources[i])
  ELSE \E at \in Places(text, SectionBreak) :
          /\ IsSectionOf(SubSeq(text, 1, at - 1), resources[i])
          /\ SectionsMatch(SubSeq(text, at + Len(SectionBreak), Len(text)), resources, i + 1)

CalledMultiple == last.op = "callTool" /\ CalledTool = LOAD_MULTIPLE_RESOURCES

\* C29: load_multiple_resources returns exactly one section per requested
\* resource string, in request order; a load failure or an unknown type
\* prefix for one resource yields an error or 'Unknown resource type' section
\* for that resource only and does not prevent the remaining resources from
\* being loaded.
C29_OneSectionPerResource ==
  CalledMultiple =>
    /\ last.ok /\ ~last.flag
    /\ IF last.arg.resources = <<>> THEN last.value = <<>>
       ELSE /\ SectionsMatch(last.value, last.arg.resources, 1)
            /\ Cardinality(Places(last.value, SectionBreak)) = Len(last.arg.resources) - 1

\* a resource that fails to load was asked before one that loads
C29_Witness ==
  /\ CalledMultiple
  /\ Len(last.arg.resources) = 2
  /\ last.arg.resources[1] = <<"g", "u", "i", "d", "e", "l", "i", "n", "e">>
  /\ last.arg.resources[2] = <<"a", "g", "e", "n", "t", ":", "p">>
  /\ LoadedBy(last.arg.resources[2]).ok
  /\ EndsWith(last.value, <<"P">>)

====
